---- MODULE Spec2Model ----
(***************************************************************************)
(* Model of the conversation engine of the Honeypot repository.            *)
(*                                                                         *)
(* agents/session_manager.py (SessionManager): every public method runs    *)
(* its whole body under self.lock.  In Spec each method is one atomic      *)
(* action on the dictionary `sessions`, called in any order.               *)
(*                                                                         *)
(* agents/orchestrator.py (Orchestrator.process_message), with             *)
(* agents/investigator_agent.py and intelligence/: in SpecCycle and        *)
(* SpecRace threads run process_message statement by statement, taking     *)
(* and releasing self.lock around each SessionManager method body.         *)
(***************************************************************************)
EXTENDS Integers, Sequences, FiniteSets, TLC

\* ------------------------------------------------------------------------
\* Bounds of the model (not program constants)
\* ------------------------------------------------------------------------
\* increment_turn is not called any more once turn_count has reached TurnCap
TurnCap == 5

\* ------------------------------------------------------------------------
\* Input domains
\* ------------------------------------------------------------------------
\* session ids the callers use
SessionIds == {"s1"}

\* value of self.sessions.get(session_id) / persona_used when absent
None == "None"

\* the five intelligence keys of a new session (session_manager.py:46-52)
IntelligenceTypes ==
    {"bankAccounts", "upiIds", "phishingLinks", "phoneNumbers", "suspiciousKeywords"}

\* constructor arguments (max_conversation_turns, min_intelligence_threshold,
\* stale_conversation_threshold) used by the repository's tests and demo block
Configs == { <<5, 2, 2>>, <<5, 1, 2>>, <<3, 1, 10>> }

\* datetime.now().isoformat() at session creation
Timestamps == {"t1"}

\* message dicts {sender, text, timestamp} passed to increment_turn
ScammerMessage == [sender |-> "scammer", text |-> "your bank account is blocked"]
\* the message dicts direct callers of the store pass (as the unit tests do)
StoreMessages == {ScammerMessage}

\* new_intel dictionaries (intel type -> list of items) passed to update_intelligence
EmptyIntel == [t \in IntelligenceTypes |-> << >>]
IntelA == [phoneNumbers |-> <<"p1">>, suspiciousKeywords |-> <<"k1">>]
IntelB == [phoneNumbers |-> <<"p1", "p2">>, upiIds |-> <<"u1">>]
IntelC == [suspiciousKeywords |-> <<"k2">>]
NewIntels == {EmptyIntel, IntelA, IntelB, IntelC}

Personas == {"elderly", "professional"}

\* threads of the server that run Orchestrator.process_message
Workers == {"w1", "w2", "w3"}
\* the threads that take calls with every kind of input
CycleWorkers == {"w1", "w2"}

\* the `message` argument of process_message
BankMessage == ScammerMessage
InvestMessage == [sender |-> "scammer", text |-> "Business Investment plan"]
PlainMessage == [sender |-> "scammer", text |-> "hello there"]
CycleMessages == {BankMessage, InvestMessage, PlainMessage}

\* the `conversation_history` argument of process_message (the client's own list)
ClientHistories == { << >>, <<[sender |-> "scammer", text |-> "you won a prize"]>> }

\* results of DetectorAgent.detect_scam, confidence in tenths
\* (is_scam False with confidence 0.5 is the detector's default result)
Verdicts ==
    { [is_scam |-> TRUE, confidence |-> 9], [is_scam |-> TRUE, confidence |-> 7],
      [is_scam |-> FALSE, confidence |-> 5] }

\* results of ActorAgent.generate_response (response.text.strip(), possibly empty)
Replies == {"is it urgent", ""}

\* ------------------------------------------------------------------------
\* State
\* ------------------------------------------------------------------------
VARIABLES
    sessions,                      \* self.sessions: session_id -> session dict
    max_conversation_turns,        \* self.max_conversation_turns
    min_intelligence_threshold,    \* self.min_intelligence_threshold
    stale_conversation_threshold,  \* self.stale_conversation_threshold
    last,                          \* the last completed call: method, arguments, return value
    returned_true,                 \* ids for which should_end_conversation has returned True
    pc,                            \* per thread: its position in Orchestrator.process_message
    local,                         \* per thread: the local variables of process_message
    lock,                          \* self.lock: the threads inside a `with self.lock` block
    datetime_defined               \* the name `datetime` is bound in module agents.orchestrator

vars == <<sessions, max_conversation_turns, min_intelligence_threshold,
          stale_conversation_threshold, last, returned_true,
          pc, local, lock, datetime_defined>>

\* the state of the threads that run process_message
cycle_vars == <<pc, local, lock, datetime_defined>>

config == <<max_conversation_turns, min_intelligence_threshold, stale_conversation_threshold>>

\* set(items)
SetOf(items) == {items[i] : i \in DOMAIN items}

\* ------------------------------------------------------------------------
\* Python str operations
\* ------------------------------------------------------------------------
\* the printable ASCII characters in code point order (\t holds the place of the
\* backquote, which cannot be written in a string here)
Ascii ==
    " !\"#$%&'()*+,-./0123456789:;<=>?@ABCDEFGHIJKLMNOPQRSTUVWXYZ[\\]^_\tabcdefghijklmnopqrstuvwxyz{|}~"

\* s[i - 1]
CharAt(s, i) == SubSeq(s, i, i)

\* ord(c) - 31, as a table
Ord == [c \in {CharAt(Ascii, i) : i \in 1..Len(Ascii)} |->
           CHOOSE i \in 1..Len(Ascii) : CharAt(Ascii, i) = c]

ord(c) == Ord[c]

\* the characters of s as a set
CharsOf(s) == {CharAt(s, i) : i \in 1..Len(s)}

UpperCase == CharsOf("ABCDEFGHIJKLMNOPQRSTUVWXYZ")
LowerCase == CharsOf("abcdefghijklmnopqrstuvwxyz")
Digits == CharsOf("0123456789")
WhiteSpace == {" ", "\t", "\n", "\r", "\f"}

\* c.lower(), as a table
Lower == [c \in UpperCase |-> CharAt(Ascii, Ord[c] + (Ord["a"] - Ord["A"]))]

RECURSIVE lower(_)
\* s.lower(), computed half by half
lower(s) ==
    IF Len(s) = 0 THEN ""
    ELSE IF Len(s) = 1 THEN (IF s \in UpperCase THEN Lower[s] ELSE s)
    ELSE lower(SubSeq(s, 1, Len(s) \div 2)) \o lower(SubSeq(s, Len(s) \div 2 + 1, Len(s)))

\* needle in hay
contains(hay, needle) ==
    \E i \in 1..(Len(hay) - Len(needle) + 1) : SubSeq(hay, i, i + Len(needle) - 1) = needle

RECURSIVE str_less(_, _)
\* a < b
str_less(a, b) ==
    IF b = "" THEN FALSE
    ELSE IF a = "" THEN TRUE
    ELSE IF Head(a) = Head(b) THEN str_less(Tail(a), Tail(b))
    ELSE ord(Head(a)) < ord(Head(b))

RECURSIVE Sorted(_)
\* sorted(list(v))
Sorted(v) ==
    IF v = {} THEN << >>
    ELSE LET least == CHOOSE x \in v : \A y \in v : x = y \/ str_less(x, y)
         IN  <<least>> \o Sorted(v \ {least})

\* not s.strip(): s is empty or holds only whitespace
isblank(s) == \A i \in 1..Len(s) : CharAt(s, i) \in WhiteSpace

\* ------------------------------------------------------------------------
\* intelligence/extractors.py, intelligence/validators.py and the regular
\* expressions of InvestigatorAgent (re.finditer: leftmost matches, scanned
\* from left to right without overlap)
\* ------------------------------------------------------------------------
SCAM_KEYWORDS ==
    {
      "urgent", "immediately", "blocked", "suspended", "verify", "OTP", "password",
      "CVV", "expire", "limited time", "act now", "account closed", "confirm identity",
      "click here", "debit", "credit", "transaction", "kyc", "bank", "financial",
      "loan", "lucky draw", "prize", "winning", "redeem", "cashback", "reward",
      "congratulations", "fund", "transfer", "link", "application", "form", "secret",
      "code", "security", "fraud", "alert", "problem", "issue", "restore", "validate",
      "investment", "opportunity", "profit", "money", "fee", "tax", "customs",
      "delivery", "package", "shipment", "update", "attention", "warning", "confirm",
      "personal", "information", "details", "contact", "official", "government",
      "police", "court", "arrest", "warrant", "fine", "penalty" }

UPI_PROVIDERS ==
    <<"paytm", "ybl", "axisbank", "oksbi", "icici", "sbi", "hdfc", "airtel",
      "freecharge", "jiomoney", "mobikwik", "apl", "okicici", "okaxis", "tmp">>

\* the character at position i, "" outside the string
At(s, i) == IF i \in 1..Len(s) THEN SubSeq(s, i, i) ELSE ""

\* [lo-hi]
between(c, lo, hi) == c # "" /\ ord(c) >= ord(lo) /\ ord(c) <= ord(hi)

\* \d, \w, \s, [\s-] on ASCII text
isdigit(c) == c \in Digits
isword(c) == c \in Digits \/ c \in LowerCase \/ c \in UpperCase \/ c = "_"
isspace(c) == c \in WhiteSpace
issep(c) == isspace(c) \/ c = "-"

\* \b between the characters at positions p - 1 and p
word_boundary(s, p) == isword(At(s, p - 1)) # isword(At(s, p))

\* \d{n} matches at position i
all_digits(s, i, n) == \A k \in i..(i + n - 1) : isdigit(At(s, k))

\* number of characters a greedy \d{0,max} takes at position i
digits_from(s, i, max) ==
    CHOOSE n \in 0..max :
        /\ all_digits(s, i, n)
        /\ n = max \/ ~isdigit(At(s, i + n))

\* s.startswith(prefix, i - 1)
starts_at(s, i, prefix) ==
    /\ i + Len(prefix) - 1 <= Len(s)
    /\ SubSeq(s, i, i + Len(prefix) - 1) = prefix

RECURSIVE remove_seps(_)
\* re.sub(r'[\s-]', '', s)
remove_seps(s) ==
    IF s = "" THEN ""
    ELSE (IF issep(Head(s)) THEN "" ELSE Head(s)) \o remove_seps(Tail(s))

\* s.isdigit() on ASCII text
str_isdigit(s) == s # "" /\ \A k \in 1..Len(s) : isdigit(At(s, k))

\* faulty variant of is_valid_bank_account: numbers of 9 digits are rejected
is_valid_bank_account_min_ten(number) ==
    /\ 10 <= Len(number) /\ Len(number) <= 18 /\ str_isdigit(number)
    /\ Cardinality({At(number, k) : k \in 1..Len(number)}) # 1
    /\ ~(contains(number, "123456789") \/ contains(number, "987654321"))

\* is_valid_bank_account
is_valid_bank_account(number) ==
    /\ 9 <= Len(number) /\ Len(number) <= 18 /\ str_isdigit(number)
    /\ Cardinality({At(number, k) : k \in 1..Len(number)}) # 1
    /\ ~(contains(number, "123456789") \/ contains(number, "987654321"))

\* PATTERNS['bank_account'] matched at position i: the position after the match, 0 if none
bank_account_match(s, i) ==
    LET b == IF issep(At(s, i + 4)) THEN i + 5 ELSE i + 4
        d == IF issep(At(s, b + 4)) THEN b + 5 ELSE b + 4
        n == digits_from(s, d, 10)
    IN  IF /\ word_boundary(s, i) /\ all_digits(s, i, 4) /\ all_digits(s, b, 4)
           /\ n >= 4 /\ word_boundary(s, d + n)
        THEN d + n ELSE 0

RECURSIVE bank_account_matches(_, _)
bank_account_matches(s, i) ==
    IF i > Len(s) THEN {}
    ELSE LET e == bank_account_match(s, i)
         IN  IF e > 0 THEN {SubSeq(s, i, e - 1)} \cup bank_account_matches(s, e)
             ELSE bank_account_matches(s, i + 1)

\* extract_bank_accounts
extract_bank_accounts(text) ==
    Sorted({c \in {remove_seps(m) : m \in bank_account_matches(text, 1)} :
               is_valid_bank_account(c)})

\* [6-9]\d{9}\b matched at position i: the position after the match, 0 if none
mobile_match(s, i) ==
    IF between(At(s, i), "6", "9") /\ all_digits(s, i + 1, 9) /\ word_boundary(s, i + 10)
    THEN i + 10 ELSE 0

\* faulty variant of phone_match: the optional group (?:\+91[\s-]?)? is left out
phone_match_no_prefix(s, i) == mobile_match(s, i)

\* PATTERNS['phone'] matched at position i: the position after the match, 0 if none
phone_match(s, i) ==
    LET p == IF issep(At(s, i + 3)) THEN i + 4 ELSE i + 3
    IN  IF starts_at(s, i, "+91") /\ mobile_match(s, p) > 0
        THEN mobile_match(s, p)
        ELSE mobile_match(s, i)

RECURSIVE phone_matches(_, _)
phone_matches(s, i) ==
    IF i > Len(s) THEN {}
    ELSE LET e == phone_match(s, i)
         IN  IF e > 0 THEN {SubSeq(s, i, e - 1)} \cup phone_matches(s, e)
             ELSE phone_matches(s, i + 1)

\* extract_phone_numbers
extract_phone_numbers(text) ==
    Sorted({c \in {remove_seps(m) : m \in phone_matches(text, 1)} :
               \/ /\ starts_at(c, 1, "+91") /\ Len(c) = 13
                  /\ str_isdigit(SubSeq(c, 4, Len(c)))
               \/ Len(c) = 10 /\ str_isdigit(c)})

\* [\w\.\-]
isupichar(c) == isword(c) \/ c = "." \/ c = "-"

RECURSIVE upichars_from(_, _)
\* number of characters a greedy [\w\.\-]* takes at position i
upichars_from(s, i) == IF isupichar(At(s, i)) THEN 1 + upichars_from(s, i + 1) ELSE 0

\* PATTERNS['upi_id'] with re.IGNORECASE matched at position i
upi_id_match(s, i) ==
    LET n == upichars_from(s, i)
        a == i + n
        ends == {a + 1 + Len(UPI_PROVIDERS[k]) : k \in
                    {j \in DOMAIN UPI_PROVIDERS :
                        /\ starts_at(lower(s), a + 1, UPI_PROVIDERS[j])
                        /\ word_boundary(s, a + 1 + Len(UPI_PROVIDERS[j]))}}
    IN  IF word_boundary(s, i) /\ n >= 1 /\ At(s, a) = "@" /\ ends # {}
        THEN CHOOSE e \in ends : TRUE ELSE 0

RECURSIVE upi_id_matches(_, _)
upi_id_matches(s, i) ==
    IF i > Len(s) THEN {}
    ELSE LET e == upi_id_match(s, i)
         IN  IF e > 0 THEN {SubSeq(s, i, e - 1)} \cup upi_id_matches(s, e)
             ELSE upi_id_matches(s, i + 1)

\* extract_upi_ids
extract_upi_ids(text) == Sorted({lower(m) : m \in upi_id_matches(text, 1)})

RECURSIVE nonspace_from(_, _)
\* number of characters a greedy [^\s]* takes at position i
nonspace_from(s, i) ==
    IF At(s, i) # "" /\ ~isspace(At(s, i)) THEN 1 + nonspace_from(s, i + 1) ELSE 0

\* a prefix followed by [^\s]+ matched at position i, case-insensitively
prefixed_match(s, i, prefixes) ==
    LET lens == {Len(p) : p \in {q \in prefixes : starts_at(lower(s), i, q)}}
        l == CHOOSE x \in lens : TRUE
        n == nonspace_from(s, i + l)
    IN  IF lens # {} /\ n >= 1 THEN i + l + n ELSE 0

RECURSIVE prefixed_matches(_, _, _)
prefixed_matches(s, i, prefixes) ==
    IF i > Len(s) THEN {}
    ELSE LET e == prefixed_match(s, i, prefixes)
         IN  IF e > 0 THEN {SubSeq(s, i, e - 1)} \cup prefixed_matches(s, e, prefixes)
             ELSE prefixed_matches(s, i + 1, prefixes)

RECURSIVE strip_chars(_, _)
\* s.strip(chars)
strip_chars(s, chars) ==
    IF s = "" THEN ""
    ELSE IF contains(chars, Head(s)) THEN strip_chars(Tail(s), chars)
    ELSE IF contains(chars, At(s, Len(s))) THEN strip_chars(SubSeq(s, 1, Len(s) - 1), chars)
    ELSE s

\* is_valid_url: validators.url of the third-party package accepts a URL that has a
\* scheme and a host
is_valid_url(url) ==
    \E scheme \in {"http://", "https://"} :
        /\ starts_at(lower(url), 1, scheme)
        /\ Len(url) > Len(scheme)
        /\ isword(At(url, Len(scheme) + 1))

\* extract_phishing_links
extract_phishing_links(text) ==
    Sorted({u \in {strip_chars(m, ".,;!?\"'") : m \in
                      prefixed_matches(text, 1, {"http://", "https://", "www."})
                      \cup prefixed_matches(text, 1, {"bit.ly/"})} :
               is_valid_url(u)})

\* extract_keywords
extract_keywords(text) ==
    LET text_lower == lower(text)
    IN  Sorted({keyword \in SCAM_KEYWORDS : contains(text_lower, keyword)})

\* extract_all
extract_all(text) ==
    IF text = "" \/ isblank(text)
    THEN [ bankAccounts |-> << >>, upiIds |-> << >>, phishingLinks |-> << >>,
           phoneNumbers |-> << >>, suspiciousKeywords |-> << >> ]
    ELSE [ bankAccounts       |-> extract_bank_accounts(text),
           upiIds             |-> extract_upi_ids(text),
           phishingLinks      |-> extract_phishing_links(text),
           phoneNumbers       |-> extract_phone_numbers(text),
           suspiciousKeywords |-> extract_keywords(text) ]

\* _create_new_session_state
create_new_session_state(session_id, now) ==
    [ session_id             |-> session_id,
      turn_count             |-> 0,
      scam_detected          |-> FALSE,
      persona_used           |-> None,
      intelligence           |-> [t \in IntelligenceTypes |-> {}],
      conversation_active    |-> TRUE,
      last_intelligence_turn |-> 0,
      created_at             |-> now,
      conversation_history   |-> << >> ]

\* placeholder recorded as the pre-state of a call on a session that does not exist
NoSession == create_new_session_state(None, None)

\* self.sessions.get(session_id)
Get(S, session_id) == IF session_id \in DOMAIN S THEN S[session_id] ELSE NoSession

\* ------------------------------------------------------------------------
\* The record of the last completed call (observation of return values)
\* ------------------------------------------------------------------------
NoMessage == [sender |-> None, text |-> None]

\*   op, id      method name and session_id argument
\*   found       whether the session existed when the call started
\*   pre         the session dict when the call started
\*   new_intel, message, flag, persona   the other arguments
\*   ret         boolean return value, count: integer return value
\*   repeat      the call is an update_intelligence that directly follows an
\*               update_intelligence with the same session_id and new_intel
\*   first_pre, first_ret   pre-state and return value of that preceding call
NoCall ==
    [ op |-> "__init__", id |-> None, found |-> FALSE, pre |-> NoSession,
      new_intel |-> EmptyIntel, message |-> NoMessage, flag |-> FALSE, persona |-> None,
      ret |-> FALSE, count |-> 0,
      repeat |-> FALSE, first_pre |-> NoSession, first_ret |-> FALSE ]

Call(op, session_id, S) ==
    [NoCall EXCEPT !.op = op, !.id = session_id,
                   !.found = (session_id \in DOMAIN S), !.pre = Get(S, session_id)]

\* ------------------------------------------------------------------------
\* The local variables of one process_message call and of the request handler
\* that made it
\*   detector_attempts, actor_attempts
\*                number of generate_content calls detect_scam and
\*                generate_response have made in this cycle
\*   outcome      what the last of these generate_content calls did
\*   status_code  HTTP status of the response analyze_scam_message gave (0: none yet)
\*   tasks        payloads of the send_final_callback tasks the handler created
\*   investigated a text, and what is_valid_bank_account and the extract_*
\*                methods of the investigator returned for it once they were called
\*   session_summary  the dict a get_session_summary call of the thread returned
\*                and the thread still holds
\* ------------------------------------------------------------------------
\* the dict process_message returns (without responseTimeMs and agentNotes)
NoResult ==
    [ status |-> None, scamDetected |-> FALSE, agentResponse |-> "",
      extractedIntelligence |-> EmptyIntel, conversationTurn |-> 0,
      totalIntelligenceItems |-> 0, confidenceScore |-> 0,
      continueConversation |-> FALSE ]

\* faulty variant of default_response: the message is taken for a scam
default_response_is_scam == [is_scam |-> TRUE, confidence |-> 5]

\* _default_response() of the detector (detector_agent.py:57-64), confidence in tenths
default_response == [is_scam |-> FALSE, confidence |-> 5]

\* no generate_content call was made yet
NoOutcome == [kind |-> None, verdict |-> default_response, text |-> ""]

\* placeholder for the summary dict where none was returned
NoSummary ==
    [ sessionId |-> None, turnCount |-> 0, scamDetected |-> FALSE, personaUsed |-> None,
      extractedIntelligence |-> EmptyIntel, conversationActive |-> TRUE,
      lastIntelligenceTurn |-> 0, createdAt |-> None, conversationHistory |-> << >> ]

\* no call of the investigator's functions was made
NoInvestigated ==
    [ text |-> "", validated |-> FALSE, is_valid |-> FALSE,
      extracted |-> FALSE, bank_accounts |-> << >>,
      phoned |-> FALSE, phone_numbers |-> << >>,
      keyworded |-> FALSE, keywords |-> << >>,
      extracted_all |-> FALSE, extracted_data |-> EmptyIntel ]

\* the thread holds no summary dict
NoHeld == [held |-> FALSE, returned |-> [error |-> FALSE, summary |-> NoSummary],
           conversation_history_of |-> None]

NoLocal ==
    [ session_id |-> None, message |-> NoMessage, conversation_history |-> << >>,
      is_scam |-> FALSE, confidence |-> 0, scam_detected |-> FALSE,
      persona_used |-> None, agent_response |-> "",
      continue_conversation |-> FALSE, result |-> NoResult,
      detector_attempts |-> 0, actor_attempts |-> 0, outcome |-> NoOutcome,
      status_code |-> 0, tasks |-> << >>, session_summary |-> NoHeld,
      investigated |-> NoInvestigated ]

\* no thread has entered process_message
NoCycles ==
    /\ pc = [w \in Workers |-> "idle"]
    /\ local = [w \in Workers |-> NoLocal]
    /\ lock = {}

Init ==
    /\ sessions = [i \in {} |-> NoSession]
    /\ \E c \in Configs :
          /\ max_conversation_turns = c[1]
          /\ min_intelligence_threshold = c[2]
          /\ stale_conversation_threshold = c[3]
    /\ last = NoCall
    /\ returned_true = {}
    /\ NoCycles
    /\ datetime_defined = FALSE

\* ------------------------------------------------------------------------
\* get_or_create_session
\* ------------------------------------------------------------------------
\* faulty variant of get_or_create: stores a fresh session dict on every call
get_or_create_reset(S, session_id, now) ==
    [i \in DOMAIN S \cup {session_id} |->
        IF i = session_id THEN create_new_session_state(session_id, now) ELSE S[i]]

\* self.sessions after the body of get_or_create_session
get_or_create(S, session_id, now) ==
    IF session_id \notin DOMAIN S
    THEN [i \in DOMAIN S \cup {session_id} |->
             IF i = session_id THEN create_new_session_state(session_id, now) ELSE S[i]]
    ELSE S

get_or_create_session(session_id, now) ==
    /\ sessions' = get_or_create(sessions, session_id, now)
    /\ last' = [Call("get_or_create_session", session_id, sessions) EXCEPT !.ret = TRUE]
    /\ UNCHANGED <<config, returned_true, cycle_vars>>

\* ------------------------------------------------------------------------
\* update_intelligence
\* ------------------------------------------------------------------------
\* session["intelligence"].get(intel_type, set())
IntelGet(intelligence, intel_type) ==
    IF intel_type \in DOMAIN intelligence THEN intelligence[intel_type] ELSE {}

\* faulty variant of merged_intelligence: stores the new items instead of the union
merged_intelligence_replace(intelligence, new_intel) ==
    [t \in DOMAIN intelligence \cup
           {k \in DOMAIN new_intel : ~(SetOf(new_intel[k]) \subseteq IntelGet(intelligence, k))} |->
        IF t \in DOMAIN new_intel /\ ~(SetOf(new_intel[t]) \subseteq IntelGet(intelligence, t))
        THEN SetOf(new_intel[t])
        ELSE intelligence[t]]

\* the intelligence dict after the loop over new_intel.items()
merged_intelligence(intelligence, new_intel) ==
    [t \in DOMAIN intelligence \cup
           {k \in DOMAIN new_intel : ~(SetOf(new_intel[k]) \subseteq IntelGet(intelligence, k))} |->
        IF t \in DOMAIN new_intel /\ ~(SetOf(new_intel[t]) \subseteq IntelGet(intelligence, t))
        THEN IntelGet(intelligence, t) \cup SetOf(new_intel[t])
        ELSE intelligence[t]]

\* faulty variant of new_intel_added: set whenever a list of new items is not empty
new_intel_added_nonempty(intelligence, new_intel) ==
    \E t \in DOMAIN new_intel : SetOf(new_intel[t]) # {}

\* new_intel_added after the loop
new_intel_added(intelligence, new_intel) ==
    \E t \in DOMAIN new_intel : ~(SetOf(new_intel[t]) \subseteq IntelGet(intelligence, t))

\* faulty variant of update_session_intelligence: stamps the number of the coming turn
update_session_intelligence_stamps_next(session, new_intel) ==
    LET current_turn == session.turn_count
        added == new_intel_added(session.intelligence, new_intel)
        merged == [session EXCEPT
                      !.intelligence = merged_intelligence(session.intelligence, new_intel)]
    IN  IF added
        THEN <<[merged EXCEPT !.last_intelligence_turn = current_turn + 1], TRUE>>
        ELSE <<merged, FALSE>>

\* faulty variant of update_session_intelligence: stamps last_intelligence_turn on every call
update_session_intelligence_always_stamps(session, new_intel) ==
    LET current_turn == session.turn_count
        added == new_intel_added(session.intelligence, new_intel)
        merged == [session EXCEPT
                      !.intelligence = merged_intelligence(session.intelligence, new_intel)]
    IN  <<[merged EXCEPT !.last_intelligence_turn = current_turn], added>>

\* body of update_intelligence on an existing session: <<session, return value>>
update_session_intelligence(session, new_intel) ==
    LET current_turn == session.turn_count
        added == new_intel_added(session.intelligence, new_intel)
        merged == [session EXCEPT
                      !.intelligence = merged_intelligence(session.intelligence, new_intel)]
    IN  IF added
        THEN <<[merged EXCEPT !.last_intelligence_turn = current_turn], TRUE>>
        ELSE <<merged, FALSE>>

update_intelligence(session_id, new_intel) ==
    LET call == [Call("update_intelligence", session_id, sessions) EXCEPT
                    !.new_intel = new_intel,
                    !.repeat = (last.op = "update_intelligence" /\ last.id = session_id
                                /\ last.new_intel = new_intel),
                    !.first_pre = IF last.op = "update_intelligence" /\ last.id = session_id
                                     /\ last.new_intel = new_intel
                                  THEN last.pre ELSE NoSession,
                    !.first_ret = IF last.op = "update_intelligence" /\ last.id = session_id
                                     /\ last.new_intel = new_intel
                                  THEN last.ret ELSE FALSE]
    IN  /\ IF session_id \notin DOMAIN sessions
           THEN /\ sessions' = sessions
                /\ last' = [call EXCEPT !.ret = FALSE]
           ELSE LET r == update_session_intelligence(sessions[session_id], new_intel)
                IN  /\ sessions' = [sessions EXCEPT ![session_id] = r[1]]
                    /\ last' = [call EXCEPT !.ret = r[2]]
        /\ UNCHANGED <<config, returned_true, cycle_vars>>

\* ------------------------------------------------------------------------
\* increment_turn
\* ------------------------------------------------------------------------
\* faulty variant of increment_session_turn: counts the turn without storing the message
increment_session_turn_no_append(session, message_dict) ==
    LET s == [session EXCEPT !.turn_count = @ + 1]
    IN  <<s, s.turn_count>>

\* faulty variant of increment_session_turn: returns the count read before the increment
increment_session_turn_old_count(session, message_dict) ==
    LET s == [session EXCEPT
                 !.turn_count = @ + 1,
                 !.conversation_history = Append(@, message_dict)]
    IN  <<s, session.turn_count>>

\* body of increment_turn on an existing session: <<session, return value>>
increment_session_turn(session, message_dict) ==
    LET s == [session EXCEPT
                 !.turn_count = @ + 1,
                 !.conversation_history = Append(@, message_dict)]
    IN  <<s, s.turn_count>>

increment_turn(session_id, message_dict) ==
    LET call == [Call("increment_turn", session_id, sessions) EXCEPT !.message = message_dict]
    IN  /\ IF session_id \notin DOMAIN sessions
           THEN /\ sessions' = sessions
                /\ last' = [call EXCEPT !.count = -1]
           ELSE /\ sessions[session_id].turn_count < TurnCap
                /\ LET r == increment_session_turn(sessions[session_id], message_dict)
                   IN  /\ sessions' = [sessions EXCEPT ![session_id] = r[1]]
                       /\ last' = [call EXCEPT !.count = r[2]]
        /\ UNCHANGED <<config, returned_true, cycle_vars>>

\* ------------------------------------------------------------------------
\* set_scam_detected, set_persona_used, end_session
\* ------------------------------------------------------------------------
\* faulty variant of set_scam_detected: a session is created for an id that has none
set_scam_detected_creating(session_id, is_scam) ==
    /\ sessions' = [i \in DOMAIN sessions \cup {session_id} |->
                       [Get(sessions, i) EXCEPT !.scam_detected =
                           IF i = session_id THEN is_scam ELSE @]]
    /\ last' = [Call("set_scam_detected", session_id, sessions) EXCEPT !.flag = is_scam]
    /\ UNCHANGED <<config, returned_true, cycle_vars>>

set_scam_detected(session_id, is_scam) ==
    /\ sessions' = IF session_id \in DOMAIN sessions
                   THEN [sessions EXCEPT ![session_id].scam_detected = is_scam]
                   ELSE sessions
    /\ last' = [Call("set_scam_detected", session_id, sessions) EXCEPT !.flag = is_scam]
    /\ UNCHANGED <<config, returned_true, cycle_vars>>

\* body of set_persona_used on an existing session
with_persona(session, persona) == [session EXCEPT !.persona_used = persona]

\* faulty variant of set_persona_used: the persona is stored in every session
set_persona_used_everywhere(session_id, persona) ==
    /\ sessions' = IF session_id \in DOMAIN sessions
                   THEN [i \in DOMAIN sessions |-> with_persona(sessions[i], persona)]
                   ELSE sessions
    /\ last' = [Call("set_persona_used", session_id, sessions) EXCEPT !.persona = persona]
    /\ UNCHANGED <<config, returned_true, cycle_vars>>

set_persona_used(session_id, persona) ==
    /\ sessions' = IF session_id \in DOMAIN sessions
                   THEN [sessions EXCEPT ![session_id] = with_persona(@, persona)]
                   ELSE sessions
    /\ last' = [Call("set_persona_used", session_id, sessions) EXCEPT !.persona = persona]
    /\ UNCHANGED <<config, returned_true, cycle_vars>>

end_session(session_id) ==
    /\ sessions' = IF session_id \in DOMAIN sessions
                   THEN [sessions EXCEPT ![session_id].conversation_active = FALSE]
                   ELSE sessions
    /\ last' = Call("end_session", session_id, sessions)
    /\ UNCHANGED <<config, returned_true, cycle_vars>>

\* ------------------------------------------------------------------------
\* should_end_conversation
\* ------------------------------------------------------------------------
\* sum(1 for intel_list in session["intelligence"].values() if len(intel_list) > 0)
intelligence_types_found(session) ==
    Cardinality({t \in DOMAIN session.intelligence : Cardinality(session.intelligence[t]) > 0})

\* faulty variant of should_end: rule 1 needs turn_count to exceed the maximum
should_end_strict_max(session, max_turns, min_intel, stale_turns) ==
    LET current_turn == session.turn_count
        ended == [session EXCEPT !.conversation_active = FALSE]
    IN  IF current_turn > max_turns
        THEN <<ended, TRUE>>
        ELSE IF intelligence_types_found(session) >= min_intel /\ current_turn > 1
        THEN <<ended, TRUE>>
        ELSE IF current_turn - session.last_intelligence_turn >= stale_turns /\ current_turn > 0
        THEN <<ended, TRUE>>
        ELSE <<session, FALSE>>

\* faulty variant of should_end: rule 2 without the first-turn guard
should_end_any_turn(session, max_turns, min_intel, stale_turns) ==
    LET current_turn == session.turn_count
        ended == [session EXCEPT !.conversation_active = FALSE]
    IN  IF current_turn >= max_turns
        THEN <<ended, TRUE>>
        ELSE IF intelligence_types_found(session) >= min_intel
        THEN <<ended, TRUE>>
        ELSE IF current_turn - session.last_intelligence_turn >= stale_turns /\ current_turn > 0
        THEN <<ended, TRUE>>
        ELSE <<session, FALSE>>

\* faulty variant of should_end: rule 3 needs more than stale_turns turns without new intelligence
should_end_strict_stale(session, max_turns, min_intel, stale_turns) ==
    LET current_turn == session.turn_count
        ended == [session EXCEPT !.conversation_active = FALSE]
    IN  IF current_turn >= max_turns
        THEN <<ended, TRUE>>
        ELSE IF intelligence_types_found(session) >= min_intel /\ current_turn > 1
        THEN <<ended, TRUE>>
        ELSE IF current_turn - session.last_intelligence_turn > stale_turns /\ current_turn > 0
        THEN <<ended, TRUE>>
        ELSE <<session, FALSE>>

\* body of should_end_conversation on an existing session: <<session, return value>>
should_end(session, max_turns, min_intel, stale_turns) ==
    LET current_turn == session.turn_count
        ended == [session EXCEPT !.conversation_active = FALSE]
    IN  IF current_turn >= max_turns
        THEN <<ended, TRUE>>
        ELSE IF intelligence_types_found(session) >= min_intel /\ current_turn > 1
        THEN <<ended, TRUE>>
        ELSE IF current_turn - session.last_intelligence_turn >= stale_turns /\ current_turn > 0
        THEN <<ended, TRUE>>
        ELSE <<session, FALSE>>

should_end_conversation(session_id) ==
    LET call == Call("should_end_conversation", session_id, sessions)
    IN  IF session_id \notin DOMAIN sessions
        THEN /\ sessions' = sessions
             /\ last' = [call EXCEPT !.ret = TRUE]
             /\ UNCHANGED <<config, returned_true, cycle_vars>>
        ELSE LET r == should_end(sessions[session_id], max_conversation_turns,
                                 min_intelligence_threshold, stale_conversation_threshold)
             IN  /\ sessions' = [sessions EXCEPT ![session_id] = r[1]]
                 /\ last' = [call EXCEPT !.ret = r[2]]
                 /\ returned_true' = IF r[2] THEN returned_true \cup {session_id}
                                             ELSE returned_true
                 /\ UNCHANGED <<config, cycle_vars>>

\* ------------------------------------------------------------------------
\* get_session_summary
\* ------------------------------------------------------------------------
\* the summary dict get_session_summary returns for an existing session
session_summary(session) ==
    [ sessionId             |-> session.session_id,
      turnCount             |-> session.turn_count,
      scamDetected          |-> session.scam_detected,
      personaUsed           |-> session.persona_used,
      extractedIntelligence |-> [t \in DOMAIN session.intelligence |->
                                    Sorted(session.intelligence[t])],
      conversationActive    |-> session.conversation_active,
      lastIntelligenceTurn  |-> session.last_intelligence_turn,
      createdAt             |-> session.created_at,
      conversationHistory   |-> session.conversation_history ]

get_session_summary(session_id) ==
    /\ last' = [Call("get_session_summary", session_id, sessions) EXCEPT
                   !.ret = (session_id \in DOMAIN sessions)]
    /\ UNCHANGED <<sessions, config, returned_true, cycle_vars>>

\* ------------------------------------------------------------------------
\* Specification: callers invoke the public methods in any order
\* ------------------------------------------------------------------------
Next ==
    \/ \E id \in SessionIds, now \in Timestamps : get_or_create_session(id, now)
    \/ \E id \in SessionIds, new_intel \in NewIntels : update_intelligence(id, new_intel)
    \/ \E id \in SessionIds, m \in StoreMessages : increment_turn(id, m)
    \/ \E id \in SessionIds, is_scam \in BOOLEAN : set_scam_detected(id, is_scam)
    \/ \E id \in SessionIds, persona \in Personas : set_persona_used(id, persona)
    \/ \E id \in SessionIds : should_end_conversation(id)
    \/ \E id \in SessionIds : get_session_summary(id)
    \/ \E id \in SessionIds : end_session(id)

Spec == Init /\ [][Next]_vars

\* ------------------------------------------------------------------------
\* Orchestrator.process_message
\*
\* Each thread of Workers runs one call.  pc[w] names the call the thread is
\* about to make or is inside; the thread is in lock while it is inside the
\* `with self.lock` block of a SessionManager method.
\* ------------------------------------------------------------------------
\* constructor arguments of the SessionManager the orchestrator runs with
CycleConfigs == { <<5, 1, 2>> }

\* positions where the thread is about to enter a `with self.lock` block
StoreCalls ==
    {"get_or_create_session", "set_scam_detected", "select_persona", "set_persona_used",
     "update_intelligence", "increment_turn", "increment_turn_response",
     "should_end_conversation", "get_session_summary"}

\* positions inside a method body, between two of its statements
MidBody ==
    {"update_intelligence_stamp", "update_intelligence_return", "increment_turn_append",
     "increment_turn_response_append"}

\* positions where the thread waits for the language model
ExternalCalls == {"detect_scam", "generate_response"}

\* the reply of a cycle that does not engage
DefaultResponse == "Thank you for your message. I will pass this along."

\* message.get("text", "")
message_text(message) == message.text

\* faulty variant of engaging: engages at confidence 0.7 too
engaging_at_threshold(is_scam, confidence) == is_scam /\ confidence >= 7

\* scam_detected = detector_result["is_scam"] and detector_result["confidence"] > 0.7
\* (confidence in tenths)
engaging(is_scam, confidence) == is_scam /\ confidence > 7

\* the heuristic of _select_persona on a message text
heuristic_persona(text) ==
    IF contains(lower(text), "bank") \/ contains(lower(text), "account")
    THEN "elderly"
    ELSE IF contains(lower(text), "business") \/ contains(lower(text), "investment")
    THEN "professional"
    ELSE "novice"

\* _select_persona, given the summary get_session_summary returned
select_persona_from(summary) ==
    LET history == summary.conversationHistory
        text == IF history # << >> THEN history[Len(history)].text ELSE ""
    IN  IF summary.personaUsed # None /\ summary.personaUsed # ""
        THEN summary.personaUsed
        ELSE heuristic_persona(text)

\* extract_all of the message texts the calls are made with, computed once
Extracted == [text \in {m.text : m \in CycleMessages} |-> extract_all(text)]

\* self.investigator.extract_all(text)
investigate(text) == IF text \in DOMAIN Extracted THEN Extracted[text] ELSE extract_all(text)

\* faulty variant of investigated_text: the reply is investigated
investigated_text_of_reply(w) == local[w].agent_response

\* the argument of self.investigator.extract_all
investigated_text(w) == message_text(local[w].message)

\* faulty variant of lock_free: a thread enters although another one is inside
lock_ignored(l) == TRUE

\* threading.Lock: a thread enters a `with self.lock` block only when none is inside
lock_free(l) == l = {}

\* faulty variant of release: the thread leaves the block without releasing the lock
release_forgotten(l, w) == l

\* the lock when thread w leaves its `with self.lock` block
release(l, w) == l \ {w}

Goto(w, position, locals) ==
    /\ pc' = [pc EXCEPT ![w] = position]
    /\ local' = [local EXCEPT ![w] = locals]

\* thread w is inside the body of the method at position
Inside(w, position) == pc[w] = position /\ w \in lock

\* the session of thread w's call
Mine(w) == sessions[local[w].session_id]

\* thread w leaves the method with the session dict as given and goes on
Leave(w, session, position, locals) ==
    /\ sessions' = [sessions EXCEPT ![local[w].session_id] = session]
    /\ lock' = release(lock, w)
    /\ Goto(w, position, locals)
    /\ UNCHANGED <<config, last, returned_true, datetime_defined>>

\* a step of thread w that touches neither the store nor the lock
LocalStep(w, position, locals) ==
    /\ Goto(w, position, locals)
    /\ UNCHANGED <<sessions, lock, config, last, returned_true, datetime_defined>>

\* process_message is called (lines 92-104)
process_message(w, session_id, message, conversation_history) ==
    /\ pc[w] = "idle"
    /\ LocalStep(w, "get_or_create_session",
                 [NoLocal EXCEPT !.session_id = session_id, !.message = message,
                                 !.conversation_history = conversation_history])

\* `with self.lock:` of any SessionManager method
acquire(w) ==
    /\ pc[w] \in StoreCalls
    /\ w \notin lock
    /\ lock_free(lock)
    /\ lock' = lock \cup {w}
    /\ UNCHANGED <<sessions, pc, local, config, last, returned_true, datetime_defined>>

\* line 95: the body of get_or_create_session
cycle_get_or_create_session(w, now) ==
    /\ Inside(w, "get_or_create_session")
    /\ sessions' = get_or_create(sessions, local[w].session_id, now)
    /\ lock' = release(lock, w)
    /\ Goto(w, "detect_scam", local[w])
    /\ UNCHANGED <<config, last, returned_true, datetime_defined>>

\* line 108: detect_scam returns
detect_scam(w, verdict) ==
    /\ pc[w] = "detect_scam"
    /\ LocalStep(w, "set_scam_detected",
                 [local[w] EXCEPT !.is_scam = verdict.is_scam,
                                  !.confidence = verdict.confidence])

\* faulty variant of cycle_set_scam_detected: the flag is set only when the call engages
cycle_set_scam_detected_engaging(w) ==
    /\ Inside(w, "set_scam_detected")
    /\ Leave(w, [Mine(w) EXCEPT !.scam_detected =
                    engaging(local[w].is_scam, local[w].confidence)],
             "read_persona",
             [local[w] EXCEPT
                 !.scam_detected = engaging(local[w].is_scam, local[w].confidence)])

\* lines 109-111: the body of set_scam_detected, then scam_detected is computed
cycle_set_scam_detected(w) ==
    /\ Inside(w, "set_scam_detected")
    /\ Leave(w, [Mine(w) EXCEPT !.scam_detected = local[w].is_scam], "read_persona",
             [local[w] EXCEPT
                 !.scam_detected = engaging(local[w].is_scam, local[w].confidence)])

\* lines 113-127 up to the next call: session["persona_used"] is read from the
\* session dict without the lock
read_persona(w) ==
    /\ pc[w] = "read_persona"
    /\ LET persona_used == Mine(w).persona_used
       IN  IF local[w].scam_detected
           THEN LocalStep(w, IF persona_used = None THEN "select_persona"
                                                    ELSE "generate_response",
                          [local[w] EXCEPT !.persona_used = persona_used])
           ELSE LocalStep(w, "update_intelligence",
                          [local[w] EXCEPT !.persona_used = persona_used,
                                           !.agent_response = DefaultResponse,
                                           !.conversation_history = << >>])

\* line 118: _select_persona, the body of its get_session_summary
select_persona(w) ==
    /\ Inside(w, "select_persona")
    /\ Leave(w, Mine(w), "set_persona_used",
             [local[w] EXCEPT !.persona_used = select_persona_from(session_summary(Mine(w)))])

\* line 119: the body of set_persona_used
cycle_set_persona_used(w) ==
    /\ Inside(w, "set_persona_used")
    /\ Leave(w, with_persona(Mine(w), local[w].persona_used), "generate_response", local[w])

\* line 125: generate_response returns
generate_response(w, reply) ==
    /\ pc[w] = "generate_response"
    /\ LocalStep(w, "update_intelligence",
                 [local[w] EXCEPT !.agent_response = reply, !.conversation_history = << >>])

\* lines 130-133: extract_all, then the loop of update_intelligence over new_intel
cycle_update_intelligence(w) ==
    /\ Inside(w, "update_intelligence")
    /\ LET new_intel == investigate(investigated_text(w))
       IN  /\ sessions' = [sessions EXCEPT ![local[w].session_id].intelligence =
                              merged_intelligence(@, new_intel)]
           /\ Goto(w, IF new_intel_added(Mine(w).intelligence, new_intel)
                      THEN "update_intelligence_stamp" ELSE "update_intelligence_return",
                   local[w])
    /\ UNCHANGED <<lock, config, last, returned_true, datetime_defined>>

\* session_manager.py:109-112: last_intelligence_turn is stamped when something was new
update_intelligence_stamp(w) ==
    /\ pc[w] \in {"update_intelligence_stamp", "update_intelligence_return"}
    /\ w \in lock
    /\ Leave(w, IF pc[w] = "update_intelligence_stamp"
                THEN [Mine(w) EXCEPT !.last_intelligence_turn = Mine(w).turn_count]
                ELSE Mine(w),
             "increment_turn", local[w])

\* faulty variant of increment_turn_count: an inactive session counts no turn
increment_turn_count_frozen(w) ==
    /\ pc[w] \in {"increment_turn", "increment_turn_response"}
    /\ w \in lock
    /\ sessions' = [sessions EXCEPT ![local[w].session_id].turn_count =
                       IF Mine(w).conversation_active THEN @ + 1 ELSE @]
    /\ Goto(w, IF pc[w] = "increment_turn" THEN "increment_turn_append"
                                           ELSE "increment_turn_response_append", local[w])
    /\ UNCHANGED <<lock, config, last, returned_true, datetime_defined>>

\* session_manager.py:131: turn_count += 1, for the message and for the response
increment_turn_count(w) ==
    /\ pc[w] \in {"increment_turn", "increment_turn_response"}
    /\ w \in lock
    /\ sessions' = [sessions EXCEPT ![local[w].session_id].turn_count = @ + 1]
    /\ Goto(w, IF pc[w] = "increment_turn" THEN "increment_turn_append"
                                           ELSE "increment_turn_response_append", local[w])
    /\ UNCHANGED <<lock, config, last, returned_true, datetime_defined>>

\* faulty variant of increment_turn_append: the response is not recorded
increment_turn_append_only(w) ==
    /\ Inside(w, "increment_turn_append")
    /\ Leave(w, [Mine(w) EXCEPT !.conversation_history = Append(@, local[w].message)],
             "should_end_conversation", local[w])

\* line 136 and session_manager.py:132: the message is appended; line 137-143: the
\* dict of the response is built, which raises NameError where datetime is not bound
increment_turn_append(w) ==
    /\ Inside(w, "increment_turn_append")
    /\ Leave(w, [Mine(w) EXCEPT !.conversation_history = Append(@, local[w].message)],
             IF local[w].agent_response = "" THEN "should_end_conversation"
             ELSE IF datetime_defined THEN "increment_turn_response"
             ELSE "raised",
             IF local[w].agent_response # "" /\ ~datetime_defined
             THEN [NoLocal EXCEPT !.session_id = local[w].session_id,
                                  !.tasks = local[w].tasks]
             ELSE local[w])

\* line 139 and session_manager.py:132: the response is appended
increment_turn_response_append(w) ==
    /\ Inside(w, "increment_turn_response_append")
    /\ Leave(w, [Mine(w) EXCEPT !.conversation_history =
                    Append(@, [sender |-> "honeypot-agent",
                               text |-> local[w].agent_response])],
             "should_end_conversation", local[w])

\* line 147: the body of should_end_conversation
cycle_should_end_conversation(w) ==
    /\ Inside(w, "should_end_conversation")
    /\ LET r == should_end(Mine(w), max_conversation_turns,
                           min_intelligence_threshold, stale_conversation_threshold)
       IN  Leave(w, r[1], "get_session_summary",
                 [local[w] EXCEPT !.continue_conversation = ~r[2]])

\* total_intelligence_items
RECURSIVE total_items(_, _)
total_items(intelligence, types) ==
    IF types = {} THEN 0
    ELSE LET t == CHOOSE x \in types : TRUE
         IN  Len(intelligence[t]) + total_items(intelligence, types \ {t})

\* faulty variant of response_dict: reports the findings of this call's message only
response_dict_own_findings(summary, locals) ==
    [ status                 |-> "success",
      scamDetected           |-> summary.scamDetected,
      agentResponse          |-> locals.agent_response,
      extractedIntelligence  |-> investigate(message_text(locals.message)),
      conversationTurn       |-> summary.turnCount,
      totalIntelligenceItems |-> total_items(investigate(message_text(locals.message)),
                                             IntelligenceTypes),
      confidenceScore        |-> locals.confidence,
      continueConversation   |-> locals.continue_conversation ]

\* the dict process_message returns, given the summary of line 153
response_dict(summary, locals) ==
    [ status                 |-> "success",
      scamDetected           |-> summary.scamDetected,
      agentResponse          |-> locals.agent_response,
      extractedIntelligence  |-> [k \in DOMAIN summary.extractedIntelligence |->
                                     Sorted(SetOf(summary.extractedIntelligence[k]))],
      conversationTurn       |-> summary.turnCount,
      totalIntelligenceItems |-> total_items(summary.extractedIntelligence,
                                             DOMAIN summary.extractedIntelligence),
      confidenceScore        |-> locals.confidence,
      continueConversation   |-> locals.continue_conversation ]

\* lines 153-179: the body of get_session_summary, then the result is returned
cycle_get_session_summary(w) ==
    /\ Inside(w, "get_session_summary")
    /\ Leave(w, Mine(w), "returned",
             [NoLocal EXCEPT !.session_id = local[w].session_id,
                             !.result = response_dict(session_summary(Mine(w)), local[w]),
                             !.tasks = local[w].tasks])

InitCycle ==
    /\ sessions = [i \in {} |-> NoSession]
    /\ \E c \in CycleConfigs :
          /\ max_conversation_turns = c[1]
          /\ min_intelligence_threshold = c[2]
          /\ stale_conversation_threshold = c[3]
    /\ last = NoCall
    /\ returned_true = {}
    /\ NoCycles
    /\ datetime_defined \in BOOLEAN

NextCycle ==
    \/ \E w \in CycleWorkers, id \in SessionIds, m \in CycleMessages, h \in ClientHistories :
          process_message(w, id, m, h)
    \/ \E w \in CycleWorkers : acquire(w)
    \/ \E w \in CycleWorkers, now \in Timestamps : cycle_get_or_create_session(w, now)
    \/ \E w \in CycleWorkers, verdict \in Verdicts : detect_scam(w, verdict)
    \/ \E w \in CycleWorkers : cycle_set_scam_detected(w)
    \/ \E w \in CycleWorkers : read_persona(w)
    \/ \E w \in CycleWorkers : select_persona(w)
    \/ \E w \in CycleWorkers : cycle_set_persona_used(w)
    \/ \E w \in CycleWorkers, reply \in Replies : generate_response(w, reply)
    \/ \E w \in CycleWorkers : cycle_update_intelligence(w)
    \/ \E w \in CycleWorkers : update_intelligence_stamp(w)
    \/ \E w \in CycleWorkers : increment_turn_count(w)
    \/ \E w \in CycleWorkers : increment_turn_append(w)
    \/ \E w \in CycleWorkers : increment_turn_response_append(w)
    \/ \E w \in CycleWorkers : cycle_should_end_conversation(w)
    \/ \E w \in CycleWorkers : cycle_get_session_summary(w)

SpecCycle == InitCycle /\ [][NextCycle]_vars

\* ------------------------------------------------------------------------
\* Three calls for one session at a time
\* ------------------------------------------------------------------------
\* (one message, the verdicts is_scam with confidence 0.9 and the default, one reply)
NextRace ==
    \/ \E w \in Workers, id \in SessionIds, m \in {BankMessage}, h \in {<< >>} :
          process_message(w, id, m, h)
    \/ \E w \in Workers : acquire(w)
    \/ \E w \in Workers, now \in Timestamps : cycle_get_or_create_session(w, now)
    \/ \E w \in Workers, verdict \in {[is_scam |-> TRUE, confidence |-> 9],
                                       [is_scam |-> FALSE, confidence |-> 5]} :
          detect_scam(w, verdict)
    \/ \E w \in Workers : cycle_set_scam_detected(w)
    \/ \E w \in Workers : read_persona(w)
    \/ \E w \in Workers : select_persona(w)
    \/ \E w \in Workers : cycle_set_persona_used(w)
    \/ \E w \in Workers, reply \in {"is it urgent"} : generate_response(w, reply)
    \/ \E w \in Workers : cycle_update_intelligence(w)
    \/ \E w \in Workers : update_intelligence_stamp(w)
    \/ \E w \in Workers : increment_turn_count(w)
    \/ \E w \in Workers : increment_turn_append(w)
    \/ \E w \in Workers : increment_turn_response_append(w)
    \/ \E w \in Workers : cycle_should_end_conversation(w)
    \/ \E w \in Workers : cycle_get_session_summary(w)

SpecRace == InitCycle /\ [][NextRace]_vars

\* ------------------------------------------------------------------------
\* One caller that makes its calls one after the other: the retry loops of the
\* two agents attempt by attempt, and the request handler of the API around
\* process_message
\* ------------------------------------------------------------------------
SeqWorkers == {"w1"}

\* detect_scam: retries = 2
retries == 2

\* generate_response: retries = 2
actor_retries == 2

\* the reply of generate_response when every attempt failed
FallbackResponse == "I'm not sure what to say about that."

\* ways a generate_content call ends without a usable response: no text, rate
\* limit exceeded, any other exception
Failures == {"empty", "ResourceExhausted", "Exception"}

\* what one generate_content call of the detector does: a response whose JSON
\* parses to a verdict, a response whose JSON does not parse, or a failure
DetectorOutcomes ==
    {[NoOutcome EXCEPT !.kind = "result", !.verdict = v] : v \in Verdicts}
    \cup {[NoOutcome EXCEPT !.kind = k] : k \in {"malformed"} \cup Failures}

\* what one generate_content call of the actor does: a response with a text (one
\* with words, one of white space only), or a failure
ActorOutcomes ==
    {[NoOutcome EXCEPT !.kind = "text", !.text = t] : t \in {" is it urgent ", " "}}
    \cup {[NoOutcome EXCEPT !.kind = k] : k \in Failures}

\* _parse_response
parse_response(outcome) ==
    IF outcome.kind = "malformed" THEN default_response ELSE outcome.verdict

\* response.text.strip() (the texts here are not wrapped in backquotes)
clean_response(text) == strip_chars(text, " \n\r\f")

\* not message or not message.strip()
is_empty_message(text) == text = "" \/ isblank(text)

\* detect_scam, line 108 of process_message: the empty-message return, or one pass
\* of the loop `for attempt in range(retries + 1)`, with the return after the loop
\* when it was the last pass
detect_scam_attempt(w, outcome) ==
    /\ pc[w] = "detect_scam"
    /\ IF is_empty_message(message_text(local[w].message))
       THEN LocalStep(w, "set_scam_detected",
                      [local[w] EXCEPT !.is_scam = FALSE, !.confidence = 0])
       ELSE LET attempted == [local[w] EXCEPT !.detector_attempts = @ + 1,
                                                !.outcome = outcome]
            IN  IF outcome.kind \in {"result", "malformed"}
                THEN LocalStep(w, "set_scam_detected",
                               [attempted EXCEPT
                                   !.is_scam = parse_response(outcome).is_scam,
                                   !.confidence = parse_response(outcome).confidence])
                ELSE IF attempted.detector_attempts = retries + 1
                THEN LocalStep(w, "set_scam_detected",
                               [attempted EXCEPT
                                   !.is_scam = default_response.is_scam,
                                   !.confidence = default_response.confidence])
                ELSE LocalStep(w, "detect_scam", attempted)

\* generate_response, line 125 of process_message: the empty-message return, or one
\* pass of the loop `for attempt in range(retries + 1)`, with the return after the
\* loop when it was the last pass
generate_response_attempt(w, outcome) ==
    /\ pc[w] = "generate_response"
    /\ IF is_empty_message(message_text(local[w].message))
       THEN LocalStep(w, "update_intelligence",
                      [local[w] EXCEPT !.agent_response = "...",
                                       !.conversation_history = << >>])
       ELSE LET attempted == [local[w] EXCEPT !.actor_attempts = @ + 1,
                                                !.outcome = outcome]
            IN  IF outcome.kind = "text"
                THEN LocalStep(w, "update_intelligence",
                               [attempted EXCEPT
                                   !.agent_response = clean_response(outcome.text),
                                   !.conversation_history = << >>])
                ELSE IF attempted.actor_attempts = actor_retries + 1
                THEN LocalStep(w, "update_intelligence",
                               [attempted EXCEPT !.agent_response = FallbackResponse,
                                                 !.conversation_history = << >>])
                ELSE LocalStep(w, "generate_response", attempted)

\* the caller's next call of process_message (lines 92-104); the caller still holds
\* the dict the call before returned, and the tasks it created are still there
process_next_message(w, session_id, message, conversation_history) ==
    /\ pc[w] \in {"returned", "responded"}
    /\ Mine(w).turn_count < TurnCap
    /\ LocalStep(w, "get_or_create_session",
                 [NoLocal EXCEPT !.session_id = session_id, !.message = message,
                                 !.conversation_history = conversation_history,
                                 !.result = local[w].result,
                                 !.tasks = local[w].tasks])

\* Orchestrator.process_message is a plain function, not a coroutine function: the
\* dict it returns cannot be awaited
process_message_is_coroutine == FALSE

\* the payload analyze_scam_message builds for send_final_callback
callback_payload(summary) ==
    [ sessionId              |-> summary.sessionId,
      scamDetected           |-> summary.scamDetected,
      totalMessagesExchanged |-> summary.turnCount,
      extractedIntelligence  |-> summary.extractedIntelligence ]

\* faulty variant of analyze_scam_message: the dict process_message returned is
\* taken as the value of the await expression
analyze_scam_message_awaitable(w) ==
    /\ ~datetime_defined
    /\ pc[w] \in {"returned", "raised"}
    /\ IF pc[w] = "returned"
       THEN LET response_data == local[w].result
            IN  LocalStep(w, "responded",
                          [local[w] EXCEPT
                              !.status_code = 200,
                              !.tasks = IF ~response_data.continueConversation
                                        THEN Append(@, callback_payload(
                                                           session_summary(Mine(w))))
                                        ELSE @])
       ELSE LocalStep(w, "responded", [local[w] EXCEPT !.status_code = 500])

\* analyze_scam_message from the moment process_message has returned or raised:
\* `await` on the returned dict raises TypeError; any exception is answered by
\* HTTP 500 (main.py imports the orchestrator module, so datetime is not bound)
analyze_scam_message(w) ==
    /\ ~datetime_defined
    /\ pc[w] \in {"returned", "raised"}
    /\ IF pc[w] = "returned" /\ process_message_is_coroutine
       THEN LET response_data == local[w].result
            IN  LocalStep(w, "responded",
                          [local[w] EXCEPT
                              !.status_code = 200,
                              !.tasks = IF ~response_data.continueConversation
                                        THEN Append(@, callback_payload(
                                                           session_summary(Mine(w))))
                                        ELSE @])
       ELSE LocalStep(w, "responded", [local[w] EXCEPT !.status_code = 500])

NextSeq ==
    \/ \E w \in SeqWorkers, id \in SessionIds, m \in {BankMessage, InvestMessage}, h \in {<< >>} :
          process_message(w, id, m, h)
    \/ \E w \in SeqWorkers, id \in SessionIds, m \in {BankMessage, InvestMessage}, h \in {<< >>} :
          process_next_message(w, id, m, h)
    \/ \E w \in SeqWorkers : acquire(w)
    \/ \E w \in SeqWorkers, now \in Timestamps : cycle_get_or_create_session(w, now)
    \/ \E w \in SeqWorkers, outcome \in DetectorOutcomes : detect_scam_attempt(w, outcome)
    \/ \E w \in SeqWorkers : cycle_set_scam_detected(w)
    \/ \E w \in SeqWorkers : read_persona(w)
    \/ \E w \in SeqWorkers : select_persona(w)
    \/ \E w \in SeqWorkers : cycle_set_persona_used(w)
    \/ \E w \in SeqWorkers, outcome \in ActorOutcomes : generate_response_attempt(w, outcome)
    \/ \E w \in SeqWorkers : cycle_update_intelligence(w)
    \/ \E w \in SeqWorkers : update_intelligence_stamp(w)
    \/ \E w \in SeqWorkers : increment_turn_count(w)
    \/ \E w \in SeqWorkers : increment_turn_append(w)
    \/ \E w \in SeqWorkers : increment_turn_response_append(w)
    \/ \E w \in SeqWorkers : cycle_should_end_conversation(w)
    \/ \E w \in SeqWorkers : cycle_get_session_summary(w)
    \/ \E w \in SeqWorkers : analyze_scam_message(w)

SpecSeq == InitCycle /\ [][NextSeq]_vars

\* the same caller with a SessionManager constructed with other arguments (main.py
\* takes them from the environment): a stale threshold above 2, and a threshold of
\* two intelligence types with a stale threshold of 2 and of 1
InitPolicy ==
    /\ sessions = [i \in {} |-> NoSession]
    /\ \E c \in { <<5, 1, 3>>, <<5, 2, 2>>, <<5, 2, 1>> } :
          /\ max_conversation_turns = c[1]
          /\ min_intelligence_threshold = c[2]
          /\ stale_conversation_threshold = c[3]
    /\ last = NoCall
    /\ returned_true = {}
    /\ NoCycles
    /\ datetime_defined \in BOOLEAN

SpecPolicy == InitPolicy /\ [][NextSeq]_vars

\* ------------------------------------------------------------------------
\* A caller of the SessionManager that keeps the dict get_session_summary
\* returned while the public methods go on being called
\* ------------------------------------------------------------------------
\* an id get_or_create_session is never called with
NeverCreatedId == "s2"
\* the ids the other methods are called with
ClientIds == SessionIds \cup {NeverCreatedId}

\* a new_intel dict with a key that is not one of the five of a new session
IntelForeign == [emails |-> <<"e1">>]

\* the value get_session_summary returns: the summary dict, or {"error": ...} when
\* the session does not exist
returned_summary(S, session_id) ==
    [ error   |-> session_id \notin DOMAIN S,
      summary |-> IF session_id \in DOMAIN S THEN session_summary(S[session_id])
                                              ELSE NoSummary ]

\* summary["conversationHistory"] read from a dict returned earlier: the dict holds
\* the list object of the session (session_manager.py:228), which increment_turn
\* appends to in place, not a copy of it
summary_history(held) ==
    IF held.conversation_history_of \in DOMAIN sessions
    THEN sessions[held.conversation_history_of].conversation_history
    ELSE held.returned.summary.conversationHistory

\* the dict as its holder reads it now; every other value of it is an int, a bool, a
\* str or a list built by get_session_summary itself
read_summary(held) ==
    [held.returned EXCEPT !.summary.conversationHistory = summary_history(held)]

\* a caller calls get_session_summary and keeps what it returned
client_get_session_summary(w, session_id) ==
    /\ last' = [Call("get_session_summary", session_id, sessions) EXCEPT
                   !.ret = (session_id \in DOMAIN sessions)]
    /\ local' = [local EXCEPT ![w].session_summary =
                    [ held |-> TRUE,
                      returned |-> returned_summary(sessions, session_id),
                      conversation_history_of |-> IF session_id \in DOMAIN sessions
                                                  THEN session_id ELSE None ]]
    /\ UNCHANGED <<sessions, config, returned_true, pc, lock, datetime_defined>>

NextClient ==
    \/ \E id \in SessionIds, now \in Timestamps : get_or_create_session(id, now)
    \/ \E id \in ClientIds, new_intel \in {IntelA, IntelForeign} : update_intelligence(id, new_intel)
    \/ \E id \in ClientIds, m \in StoreMessages : increment_turn(id, m)
    \/ \E id \in ClientIds : set_scam_detected(id, TRUE)
    \/ \E id \in ClientIds : set_persona_used(id, "elderly")
    \/ \E id \in ClientIds : should_end_conversation(id)
    \/ \E w \in SeqWorkers, id \in ClientIds : client_get_session_summary(w, id)

InitClient == InitCycle /\ ~datetime_defined

SpecClient == InitClient /\ [][NextClient]_vars

\* ------------------------------------------------------------------------
\* is_valid_bank_account and extract_bank_accounts applied to texts
\* ------------------------------------------------------------------------
\* the texts are made of at most MaxChunks pieces
MaxChunks == 4

\* pieces of digits, separators and a letter
Chunks == {"12345678", "9", "987654321", "1111", "-", " ", "x"}

RECURSIVE Joined(_)
\* "".join(pieces)
Joined(pieces) == IF pieces = << >> THEN "" ELSE Head(pieces) \o Joined(Tail(pieces))

\* the arguments the two functions are called with
BankTexts == {Joined(pieces) : pieces \in UNION {[1..n -> Chunks] : n \in 0..MaxChunks}}

\* is_valid_bank_account(text) is called
call_is_valid_bank_account(w) ==
    /\ ~local[w].investigated.validated
    /\ local' = [local EXCEPT ![w].investigated.validated = TRUE,
                             ![w].investigated.is_valid =
                                 is_valid_bank_account(local[w].investigated.text)]
    /\ UNCHANGED <<sessions, config, last, returned_true, pc, lock, datetime_defined>>

\* extract_bank_accounts(text) is called
call_extract_bank_accounts(w) ==
    /\ ~local[w].investigated.extracted
    /\ local' = [local EXCEPT ![w].investigated.extracted = TRUE,
                             ![w].investigated.bank_accounts =
                                 extract_bank_accounts(local[w].investigated.text)]
    /\ UNCHANGED <<sessions, config, last, returned_true, pc, lock, datetime_defined>>

InitBank ==
    /\ sessions = [i \in {} |-> NoSession]
    /\ \E c \in CycleConfigs :
          /\ max_conversation_turns = c[1]
          /\ min_intelligence_threshold = c[2]
          /\ stale_conversation_threshold = c[3]
    /\ last = NoCall
    /\ returned_true = {}
    /\ pc = [w \in Workers |-> "idle"]
    /\ lock = {}
    /\ datetime_defined = FALSE
    /\ \E text \in BankTexts :
          local = [w \in Workers |->
                      IF w \in SeqWorkers
                      THEN [NoLocal EXCEPT !.investigated.text = text]
                      ELSE NoLocal]

NextBank ==
    \/ \E w \in SeqWorkers : call_is_valid_bank_account(w)
    \/ \E w \in SeqWorkers : call_extract_bank_accounts(w)

SpecBank == InitBank /\ [][NextBank]_vars

\* ------------------------------------------------------------------------
\* The investigator's methods applied to texts with numbers, phone numbers and
\* keywords
\* ------------------------------------------------------------------------
\* the texts are made of at most MaxPieces pieces, or are one of the fixed texts
MaxPieces == 3

\* extract_phone_numbers(text) is called
call_extract_phone_numbers(w) ==
    /\ ~local[w].investigated.phoned
    /\ local' = [local EXCEPT ![w].investigated.phoned = TRUE,
                             ![w].investigated.phone_numbers =
                                 extract_phone_numbers(local[w].investigated.text)]
    /\ UNCHANGED <<sessions, config, last, returned_true, pc, lock, datetime_defined>>

\* extract_keywords(text) is called
call_extract_keywords(w) ==
    /\ ~local[w].investigated.keyworded
    /\ local' = [local EXCEPT ![w].investigated.keyworded = TRUE,
                             ![w].investigated.keywords =
                                 extract_keywords(local[w].investigated.text)]
    /\ UNCHANGED <<sessions, config, last, returned_true, pc, lock, datetime_defined>>

\* extract_all(text) is called
call_extract_all(w) ==
    /\ ~local[w].investigated.extracted_all
    /\ local' = [local EXCEPT ![w].investigated.extracted_all = TRUE,
                             ![w].investigated.extracted_data =
                                 extract_all(local[w].investigated.text)]
    /\ UNCHANGED <<sessions, config, last, returned_true, pc, lock, datetime_defined>>

\* the text is one of the texts of the repository's scenarios and tests, or is
\* joined from pieces: numbers, the +91 prefix, separators, words
InitExtract ==
    /\ sessions = [i \in {} |-> NoSession]
    /\ max_conversation_turns = 5
    /\ min_intelligence_threshold = 2
    /\ stale_conversation_threshold = 2
    /\ last = NoCall
    /\ returned_true = {}
    /\ pc = [w \in Workers |-> "idle"]
    /\ lock = {}
    /\ datetime_defined = FALSE
    /\ \E text \in
             { "1234567890123456", "123456789012",
               "Your account 1234-5678-90123456 has been suspended",
               "Call +919876543210 or 8765432109, not 123456789",
               "+911234567890",
               "URGENT: verify your account. Click Here!" }
             \cup { Joined(pieces) : pieces \in UNION { [1..n ->
                        { "+91", "9876543210", "1234567890", "123456789",
                          " ", "-", "OTP", "Urgent " }] : n \in 0..MaxPieces } } :
          local = [w \in Workers |->
                      IF w \in SeqWorkers
                      THEN [NoLocal EXCEPT !.investigated.text = text]
                      ELSE NoLocal]

NextExtract ==
    \/ \E w \in SeqWorkers : call_is_valid_bank_account(w)
    \/ \E w \in SeqWorkers : call_extract_phone_numbers(w)
    \/ \E w \in SeqWorkers : call_extract_keywords(w)
    \/ \E w \in SeqWorkers : call_extract_all(w)

SpecExtract == InitExtract /\ [][NextExtract]_vars

\* ------------------------------------------------------------------------
\* Shorthands used by the properties
\* ------------------------------------------------------------------------
\* the three termination rules as the specification states them
RuleMaxTurns(session) == session.turn_count >= max_conversation_turns

RuleSufficientEvidence(session) ==
    /\ Cardinality({t \in DOMAIN session.intelligence : session.intelligence[t] # {}})
          >= min_intelligence_threshold
    /\ session.turn_count > 1

RuleStale(session) ==
    /\ session.turn_count - session.last_intelligence_turn >= stale_conversation_threshold
    /\ session.turn_count > 0

\* the last call was method op on a session that existed
Did(op) == last.op = op /\ last.found

\* the session the last call was about, as it is now
Now == sessions[last.id]

\* every value of the incoming findings was already stored before the last call
NothingNew(intelligence, new_intel) ==
    \A t \in DOMAIN new_intel : \A i \in DOMAIN new_intel[t] :
        t \in DOMAIN intelligence /\ new_intel[t][i] \in intelligence[t]

\* ------------------------------------------------------------------------
\* C1 - Terminal stability: once should_end_conversation has returned True for
\* a session, every later call for that session also returns True and
\* conversation_active stays False, whatever increment_turn and
\* update_intelligence calls happen in between.
\* ------------------------------------------------------------------------
C1_TerminalStability ==
    \A id \in returned_true :
        /\ sessions[id].conversation_active = FALSE
        /\ (last.op = "should_end_conversation" /\ last.id = id) => last.ret = TRUE

\* ------------------------------------------------------------------------
\* C2 - Persona stickiness: set_persona_used is first-write-wins; after
\* set_persona_used(id, "elderly") on a session without persona, a later
\* set_persona_used(id, "professional") leaves the persona unchanged and the
\* summary still reports personaUsed = "elderly".
\* ------------------------------------------------------------------------
C2_PersonaFirstWriteWins ==
    (Did("set_persona_used") /\ last.pre.persona_used = "elderly"
                             /\ last.persona = "professional")
        => /\ Now.persona_used = "elderly"
           /\ session_summary(Now).personaUsed = "elderly"

\* ------------------------------------------------------------------------
\* C3 - Monotonic evidence growth: in every step, for every session and every
\* category, the evidence set after the step is a superset of the set before
\* it; no operation removes a value.
\* ------------------------------------------------------------------------
C3_EvidenceMonotonic ==
    [][\A id \in DOMAIN sessions :
          /\ id \in DOMAIN sessions'
          /\ \A t \in DOMAIN sessions[id].intelligence :
                /\ t \in DOMAIN sessions'[id].intelligence
                /\ sessions[id].intelligence[t] \subseteq sessions'[id].intelligence[t]]_vars

\* a merge has just added a value to a category that already held another one
C3_Witness ==
    /\ Did("update_intelligence") /\ last.ret
    /\ \E t \in DOMAIN last.new_intel \cap DOMAIN last.pre.intelligence :
          /\ last.pre.intelligence[t] # {}
          /\ last.pre.intelligence[t] # Now.intelligence[t]
          /\ ~(last.pre.intelligence[t] \subseteq SetOf(last.new_intel[t]))

\* ------------------------------------------------------------------------
\* C4 - Merge idempotence.  As claimed: two update_intelligence calls in a row
\* with the same findings return True on the first call and False on the
\* second, and the second call leaves the evidence sets as the first left them.
\* ------------------------------------------------------------------------
C4_Original ==
    (Did("update_intelligence") /\ last.repeat)
        => /\ last.first_ret = TRUE
           /\ last.ret = FALSE
           /\ Now.intelligence = last.pre.intelligence

\* C4 as amended: the first of two update_intelligence calls in a row with the
\* same findings returns True exactly when the findings hold a value that was
\* not stored yet (False otherwise, e.g. for empty findings); the second call
\* returns False and leaves the evidence sets as the first call left them.
C4_MergeIdempotent ==
    (Did("update_intelligence") /\ last.repeat)
        => /\ last.first_ret = ~NothingNew(last.first_pre.intelligence, last.new_intel)
           /\ last.ret = FALSE
           /\ Now.intelligence = last.pre.intelligence

\* the same non-empty findings were merged twice in a row, the first call grew
C4_Witness ==
    /\ Did("update_intelligence") /\ last.repeat
    /\ last.first_ret /\ ~last.ret
    /\ last.first_pre.intelligence # Now.intelligence

\* ------------------------------------------------------------------------
\* C5 - conversation_active starts True and is terminal once False: no
\* operation changes it from False back to True.
\* ------------------------------------------------------------------------
C5_ActiveTerminal ==
    [][/\ \A id \in DOMAIN sessions' \ DOMAIN sessions : sessions'[id].conversation_active
       /\ \A id \in DOMAIN sessions :
             ~sessions[id].conversation_active
                => id \in DOMAIN sessions' /\ ~sessions'[id].conversation_active]_vars

\* get_or_create_session was called on a session that had been ended
C5_Witness ==
    /\ Did("get_or_create_session")
    /\ ~last.pre.conversation_active
    /\ ~Now.conversation_active

C8_EndsOnSufficientEvidence ==
    ( /\ Did("should_end_conversation")
      /\ last.pre.turn_count >= 1
      /\ intelligence_types_found(last.pre) >= min_intelligence_threshold )
        => /\ last.ret = TRUE
           /\ ~Now.conversation_active

\* ------------------------------------------------------------------------
\* C9 - Staleness: when the max-turns and sufficient-evidence rules do not
\* match and evidence last grew at turn t, should_end_conversation returns
\* False while turn_count - t < stale turns and True (ending the session) once
\* turn_count - t >= stale turns.
\* ------------------------------------------------------------------------
C9_Staleness ==
    ( /\ Did("should_end_conversation")
      /\ ~RuleMaxTurns(last.pre)
      /\ ~RuleSufficientEvidence(last.pre) )
        => /\ last.ret = (last.pre.turn_count - last.pre.last_intelligence_turn
                             >= stale_conversation_threshold)
           /\ last.ret => ~Now.conversation_active
           /\ ~last.ret => Now.conversation_active = last.pre.conversation_active

\* stale turns = 2, evidence merged at turn 1, evaluated at turn 3: ended as stale
C9_Witness ==
    /\ Did("should_end_conversation") /\ last.ret
    /\ stale_conversation_threshold = 2
    /\ last.pre.last_intelligence_turn = 1 /\ last.pre.turn_count = 3
    /\ intelligence_types_found(last.pre) > 0
    /\ ~RuleMaxTurns(last.pre) /\ ~RuleSufficientEvidence(last.pre)
    /\ last.pre.conversation_active /\ ~Now.conversation_active

\* ------------------------------------------------------------------------
\* C10 - update_intelligence returns True iff at least one incoming value was
\* not already present in its category; when it returns True
\* last_intelligence_turn becomes the turn_count at the moment of the call, and
\* when it returns False last_intelligence_turn and all evidence sets are
\* unchanged.
\* ------------------------------------------------------------------------
C10_MergeResult ==
    Did("update_intelligence")
        => /\ last.ret = ~NothingNew(last.pre.intelligence, last.new_intel)
           /\ last.ret => Now.last_intelligence_turn = last.pre.turn_count
           /\ ~last.ret => /\ Now.last_intelligence_turn = last.pre.last_intelligence_turn
                           /\ Now.intelligence = last.pre.intelligence

\* a merge of partly known findings grew the evidence some turns after the last growth
C10_Witness ==
    /\ Did("update_intelligence") /\ last.ret
    /\ last.pre.turn_count > last.pre.last_intelligence_turn
    /\ last.pre.last_intelligence_turn > 0
    /\ Now.last_intelligence_turn = last.pre.turn_count
    /\ \E t \in DOMAIN last.new_intel :
          SetOf(last.new_intel[t]) \cap last.pre.intelligence[t] # {}

\* ------------------------------------------------------------------------
\* C11 - In every reachable state of every session last_intelligence_turn <=
\* turn_count, for any interleaving of increment_turn, update_intelligence and
\* should_end_conversation calls.
\* ------------------------------------------------------------------------
C11_LastEvidenceTurnBounded ==
    \A id \in DOMAIN sessions :
        sessions[id].last_intelligence_turn <= sessions[id].turn_count

\* evidence has just grown at the current turn, after an earlier growth
C11_Witness ==
    /\ Did("update_intelligence") /\ last.ret
    /\ last.pre.last_intelligence_turn > 0
    /\ Now.turn_count >= 2
    /\ Now.last_intelligence_turn = Now.turn_count

\* ------------------------------------------------------------------------
\* C12 - The length of a session's conversation_history equals its turn_count
\* in every state visible between the store's operations.
\* ------------------------------------------------------------------------
C12_HistoryLength ==
    \A id \in DOMAIN sessions :
        Len(sessions[id].conversation_history) = sessions[id].turn_count

\* a third turn has just been recorded
C12_Witness ==
    /\ Did("increment_turn")
    /\ Now.turn_count = 3
    /\ Len(Now.conversation_history) = 3

\* ------------------------------------------------------------------------
\* C13 - increment_turn on an existing session appends exactly one record,
\* increases turn_count by exactly 1 and returns the new count; no other
\* operation changes turn_count or the history, so the counts returned by N
\* calls are 1..N.
\* ------------------------------------------------------------------------
C13_RecordTurn ==
    [][\A id \in DOMAIN sessions \cap DOMAIN sessions' :
          IF last'.op = "increment_turn" /\ last'.id = id
          THEN /\ sessions'[id].turn_count = sessions[id].turn_count + 1
               /\ sessions'[id].conversation_history =
                      Append(sessions[id].conversation_history, last'.message)
               /\ last'.count = sessions'[id].turn_count
          ELSE /\ sessions'[id].turn_count = sessions[id].turn_count
               /\ sessions'[id].conversation_history = sessions[id].conversation_history]_vars

\* the fourth increment_turn returned 4
C13_Witness ==
    /\ Did("increment_turn")
    /\ last.pre.turn_count = 3
    /\ last.count = 4
    /\ Len(Now.conversation_history) = 4

\* ------------------------------------------------------------------------
\* C14 - At most one session dict exists per session id: get_or_create_session
\* leaves the id with exactly one dict whose session_id is that id; when the
\* id already had a dict, that dict is kept as it was (turn_count,
\* intelligence, persona_used, conversation_active, last_intelligence_turn and
\* conversation_history are not reset), and when it had none, the new dict has
\* the defaults.
\* ------------------------------------------------------------------------
C14_OneSessionPerId ==
    /\ \A id \in DOMAIN sessions : sessions[id].session_id = id
    /\ last.op = "get_or_create_session"
          => /\ last.id \in DOMAIN sessions
             /\ last.found => Now = last.pre
             /\ ~last.found => \E now \in Timestamps :
                                  Now = create_new_session_state(last.id, now)

\* get_or_create_session was called for a session that had turns, evidence and a persona
C14_Witness ==
    /\ Did("get_or_create_session")
    /\ last.pre.turn_count >= 2
    /\ last.pre.persona_used # None
    /\ last.pre.last_intelligence_turn >= 1
    /\ Now.turn_count = last.pre.turn_count

\* ------------------------------------------------------------------------
\* C15 - The SessionManager methods exclude each other: at most one thread is
\* inside a `with self.lock` block, a thread between two statements of a
\* method body is that thread, and a half-made update (turn_count incremented
\* with the message not yet appended) exists only while the thread making it
\* is inside, so no other method can observe it.
\* ------------------------------------------------------------------------
C15_MutualExclusion ==
    /\ Cardinality(lock) <= 1
    /\ \A w \in Workers : pc[w] \in MidBody => lock = {w}
    /\ \A id \in DOMAIN sessions :
          Len(sessions[id].conversation_history) # sessions[id].turn_count
             => \E w \in lock :
                   /\ local[w].session_id = id
                   /\ pc[w] \in {"increment_turn_append", "increment_turn_response_append"}

\* a thread is half way through increment_turn while another thread waits at a method
C15_Witness ==
    \E w, v \in Workers :
        /\ w # v
        /\ Inside(w, "increment_turn_append")
        /\ Len(Mine(w).conversation_history) # Mine(w).turn_count
        /\ pc[v] \in StoreCalls /\ v \notin lock

\* ------------------------------------------------------------------------
\* C16 - The store lock is held only inside SessionManager method bodies: a
\* thread that waits in detect_scam or generate_response (or is anywhere
\* between two method calls) does not hold the lock, so other threads can go
\* through their store operations while it waits.
\* ------------------------------------------------------------------------
C16_NoLockAcrossExternalCalls ==
    \A w \in Workers :
        /\ pc[w] \in ExternalCalls => w \notin lock
        /\ w \in lock => pc[w] \in StoreCalls \cup MidBody

\* a call has returned while another thread still waits for generate_response
C16_Witness ==
    \E w, v \in Workers :
        /\ pc[w] = "generate_response"
        /\ pc[v] = "returned"
        /\ local[v].result.conversationTurn = 2
        /\ lock = {}

\* ------------------------------------------------------------------------
\* C17 - A session's persona_used, once set, never changes, also when calls
\* for the same session race.
\* ------------------------------------------------------------------------
C17_PersonaNeverChanges ==
    [][\A id \in DOMAIN sessions :
          sessions[id].persona_used # None
             => sessions'[id].persona_used = sessions[id].persona_used]_vars

\* ------------------------------------------------------------------------
\* C18 - The persona an engaging call assigns to a session without persona is
\* the one the ordered heuristic gives for the text of the message the call
\* is processing.
\* ------------------------------------------------------------------------
C18_PersonaFromCurrentMessage ==
    [][\A w \in Workers :
          (Inside(w, "set_persona_used") /\ pc'[w] = "generate_response")
             => sessions'[local[w].session_id].persona_used =
                   heuristic_persona(local[w].message.text)]_vars

\* ------------------------------------------------------------------------
\* C19 - A call engages exactly when the detector says is_scam with a
\* confidence above 0.7; only engaging calls select or set a persona or call
\* generate_response, and a call that does not engage answers with the fixed
\* acknowledgement and leaves persona_used as it is.
\* ------------------------------------------------------------------------
AfterVerdict ==
    {"read_persona", "select_persona", "set_persona_used", "generate_response",
     "update_intelligence", "update_intelligence_stamp", "update_intelligence_return",
     "increment_turn", "increment_turn_append"}

C19_Engaging ==
    [][\A w \in Workers :
          /\ pc'[w] \in AfterVerdict
                => local'[w].scam_detected = (local'[w].is_scam /\ local'[w].confidence > 7)
          /\ pc'[w] \in {"select_persona", "set_persona_used", "generate_response"}
                => local'[w].scam_detected
          /\ (pc'[w] \in AfterVerdict /\ pc'[w] # "read_persona" /\ ~local'[w].scam_detected)
                => local'[w].agent_response =
                      "Thank you for your message. I will pass this along."
          /\ (pc[w] \in AfterVerdict /\ ~local[w].scam_detected /\ pc'[w] # pc[w])
                => \A id \in DOMAIN sessions :
                      sessions'[id].persona_used = sessions[id].persona_used]_vars

\* a verdict is_scam with confidence exactly 0.7 was answered with the acknowledgement
C19_Witness ==
    \E w \in Workers :
        /\ pc[w] = "increment_turn"
        /\ local[w].is_scam /\ local[w].confidence = 7
        /\ ~local[w].scam_detected
        /\ local[w].agent_response = DefaultResponse
        /\ Mine(w).persona_used # None

\* ------------------------------------------------------------------------
\* C20 - A session's intelligence is the union of extract_all over the texts
\* of the scammer messages processed for it (those recorded in its history
\* and those merged by a call that has not recorded its message yet); the
\* replies and the conversation_history argument add nothing.
\* ------------------------------------------------------------------------
Merged ==
    {"update_intelligence_stamp", "update_intelligence_return", "increment_turn",
     "increment_turn_append"}

ProcessedTexts(id) ==
    {m.text : m \in {r \in SetOf(sessions[id].conversation_history) : r.sender = "scammer"}}
    \cup {local[w].message.text :
             w \in {v \in Workers : pc[v] \in Merged /\ local[v].session_id = id}}

C20_EvidenceFromMessages ==
    \A id \in DOMAIN sessions : \A t \in IntelligenceTypes :
        sessions[id].intelligence[t] =
            UNION {SetOf(investigate(text)[t]) : text \in ProcessedTexts(id)}

\* two messages were processed and answered, and only their keywords are stored
C20_Witness ==
    \E id \in DOMAIN sessions :
        /\ \E i \in DOMAIN sessions[id].conversation_history :
              sessions[id].conversation_history[i] =
                  [sender |-> "honeypot-agent", text |-> "is it urgent"]
        /\ sessions[id].intelligence["suspiciousKeywords"] = {"bank", "blocked", "investment"}
        /\ \A w \in Workers : pc[w] \in {"idle", "returned"}

\* ------------------------------------------------------------------------
\* Shorthands for the calls made one after the other
\* ------------------------------------------------------------------------
\* the record of a reply in the history
AgentRecord(text) == [sender |-> "honeypot-agent", text |-> text]

\* thread w takes a step that leaves position `from`
Leaves(w, from) == pc[w] = from /\ pc'[w] # from

\* thread w takes the step on which process_message returns its result
Returns(w) == pc[w] = "get_session_summary" /\ pc'[w] = "returned"

\* ------------------------------------------------------------------------
\* C21 - A call of process_message records the message with its first
\* append and the reply, right behind the message, with its second; a call
\* that returns with a non-empty reply leaves message and reply as the last
\* two records of the history and a turn count that is 2 higher than the one
\* the call before reported, so the records of calls made one after the other
\* alternate between actor and agent.
\* ------------------------------------------------------------------------
C21_TwoTurnsPerCycle ==
    [][\A w \in SeqWorkers :
          /\ Leaves(w, "increment_turn_append")
                => sessions'[local[w].session_id].conversation_history =
                      Append(Mine(w).conversation_history, local[w].message)
          /\ Leaves(w, "increment_turn_response_append")
                => LET h == Mine(w).conversation_history
                   IN  /\ h # << >> /\ h[Len(h)] = local[w].message
                       /\ sessions'[local[w].session_id].conversation_history =
                             Append(h, AgentRecord(local[w].agent_response))
          /\ (Returns(w) /\ local[w].agent_response # "")
                => LET h == Mine(w).conversation_history
                       n == Len(h)
                   IN  /\ n >= 2
                       /\ h[n - 1] = local[w].message
                       /\ h[n] = AgentRecord(local[w].agent_response)
                       /\ Mine(w).turn_count = n
                       /\ local'[w].result.conversationTurn =
                             local[w].result.conversationTurn + 2]_vars

\* two calls have returned with a reply: four records, actor and agent in turn
C21_Witness ==
    \E w \in SeqWorkers :
        /\ pc[w] = "returned"
        /\ local[w].result.agentResponse # ""
        /\ local[w].result.conversationTurn = 4
        /\ LET h == Mine(w).conversation_history
           IN  /\ Len(h) = 4
               /\ h[1].sender = "scammer" /\ h[2].sender = "honeypot-agent"
               /\ h[3].sender = "scammer" /\ h[4].sender = "honeypot-agent"

\* ------------------------------------------------------------------------
\* C22 - The dict a call returns reports continueConversation as the negation
\* of what should_end_conversation gives for the session, the session's
\* turn_count as conversationTurn, and the whole stored intelligence of the
\* session, which includes everything the dict of the call before reported.
\* ------------------------------------------------------------------------
C22_ResultReports ==
    [][\A w \in SeqWorkers :
          Returns(w) =>
             LET result == local'[w].result
                 earlier == local[w].result
                 session == Mine(w)
             IN  /\ result.continueConversation =
                       ~should_end(session, max_conversation_turns,
                                   min_intelligence_threshold,
                                   stale_conversation_threshold)[2]
                 /\ result.conversationTurn = session.turn_count
                 /\ \A t \in IntelligenceTypes :
                       /\ SetOf(result.extractedIntelligence[t]) = session.intelligence[t]
                       /\ SetOf(earlier.extractedIntelligence[t])
                             \subseteq SetOf(result.extractedIntelligence[t])]_vars

\* the second call returned: it reports the end of the conversation, four turns and
\* the keywords of both messages
C22_Witness ==
    \E w \in SeqWorkers :
        /\ pc[w] = "returned"
        /\ ~local[w].result.continueConversation
        /\ local[w].result.conversationTurn = 4
        /\ local[w].result.extractedIntelligence["suspiciousKeywords"] =
              <<"bank", "blocked", "investment">>

\* ------------------------------------------------------------------------
\* C23 - No call of process_message raises: none stops between recording the
\* message and recording the reply.
\* ------------------------------------------------------------------------
C23_NeverRaises == \A w \in Workers : pc[w] # "raised"

\* ------------------------------------------------------------------------
\* C24 - detect_scam makes at most 3 generate_content calls: a call that gives
\* a verdict ends detect_scam with that verdict, a failed call is followed by
\* another one unless it was the third, and the third failure ends detect_scam
\* with is_scam false and confidence 0.5; the cycle then goes on without
\* engaging, with the acknowledgement as its reply.
\* ------------------------------------------------------------------------
C24_DetectorAttempts ==
    [][\A w \in SeqWorkers :
          /\ (pc[w] = "detect_scam" /\ <<pc[w], local[w]>> # <<pc'[w], local'[w]>>)
                => LET n == local'[w].detector_attempts
                       outcome == local'[w].outcome
                   IN  /\ n = local[w].detector_attempts + 1
                       /\ n <= 3
                       /\ pc'[w] \in {"detect_scam", "set_scam_detected"}
                       /\ outcome.kind = "result"
                             => /\ pc'[w] = "set_scam_detected"
                                /\ local'[w].is_scam = outcome.verdict.is_scam
                                /\ local'[w].confidence = outcome.verdict.confidence
                       /\ (outcome.kind \in Failures /\ n < 3) => pc'[w] = "detect_scam"
                       /\ (outcome.kind \in Failures /\ n = 3)
                             => /\ pc'[w] = "set_scam_detected"
                                /\ ~local'[w].is_scam
                                /\ local'[w].confidence = 5
          /\ (Leaves(w, "read_persona") /\ local[w].detector_attempts = 3
                 /\ local[w].outcome.kind \in Failures)
                => /\ ~local[w].scam_detected
                   /\ pc'[w] = "update_intelligence"
                   /\ local'[w].agent_response = DefaultResponse]_vars

\* three generate_content calls failed and the cycle goes on with the acknowledgement
C24_Witness ==
    \E w \in SeqWorkers :
        /\ pc[w] = "update_intelligence"
        /\ local[w].detector_attempts = 3
        /\ local[w].outcome.kind \in Failures
        /\ ~local[w].is_scam /\ local[w].confidence = 5
        /\ local[w].agent_response = DefaultResponse

\* ------------------------------------------------------------------------
\* C25 - A cycle whose three generate_content calls of the actor all failed
\* goes on with the fallback reply and does not raise.
\* ------------------------------------------------------------------------
C25_FallbackCompletes ==
    [][\A w \in SeqWorkers :
          (/\ local[w].actor_attempts = 3
           /\ local[w].outcome.kind \in Failures
           /\ local[w].agent_response = FallbackResponse
           /\ pc'[w] # pc[w])
             => pc'[w] # "raised"]_vars

\* ------------------------------------------------------------------------
\* C26 - A summary dict that get_session_summary returned reads the same at
\* any later time, whatever methods were called in between: every field,
\* conversationHistory and the evidence lists included, has the value it had
\* when the dict was returned.
\* ------------------------------------------------------------------------
C26_SummaryImmutable ==
    \A w \in SeqWorkers :
        local[w].session_summary.held
           => read_summary(local[w].session_summary) = local[w].session_summary.returned

\* ------------------------------------------------------------------------
\* C27 - A call of update_intelligence, increment_turn, set_scam_detected,
\* set_persona_used, get_session_summary or should_end_conversation with an
\* id that has no session leaves self.sessions as it is, without a session
\* for that id, and returns False, -1, nothing, nothing, the error value and
\* True respectively.
\* ------------------------------------------------------------------------
C27_UnknownIdNoEffect ==
    [][(/\ ~last'.found
        /\ last'.op \in {"update_intelligence", "increment_turn", "set_scam_detected",
                         "set_persona_used", "get_session_summary",
                         "should_end_conversation"})
          => /\ sessions' = sessions
             /\ last'.id \notin DOMAIN sessions'
             /\ returned_true' = returned_true
             /\ last'.op = "update_intelligence" => ~last'.ret
             /\ last'.op = "increment_turn" => last'.count = -1
             /\ last'.op = "should_end_conversation" => last'.ret
             /\ last'.op = "get_session_summary"
                   => /\ ~last'.ret
                      /\ \A w \in SeqWorkers :
                            local'[w] # local[w]
                               => local'[w].session_summary.returned.error]_vars

\* increment_turn was called with the id that has no session while another
\* session holds turns and evidence
C27_Witness ==
    /\ last.op = "increment_turn" /\ last.id = NeverCreatedId
    /\ ~last.found /\ last.count = -1
    /\ \E id \in DOMAIN sessions :
          /\ sessions[id].turn_count > 0
          /\ sessions[id].intelligence["phoneNumbers"] # {}
    /\ NeverCreatedId \notin DOMAIN sessions

\* ------------------------------------------------------------------------
\* C28 - The intelligence dict of every session has exactly the five keys
\* bankAccounts, upiIds, phishingLinks, phoneNumbers and suspiciousKeywords.
\* ------------------------------------------------------------------------
C28_FiveCategories ==
    \A id \in DOMAIN sessions : DOMAIN sessions[id].intelligence = IntelligenceTypes

\* ------------------------------------------------------------------------
\* C29 - The request handler creates the send_final_callback task exactly
\* when process_message returned a dict with continueConversation false: one
\* task then, none when the dict says true and none when the call raised.
\* ------------------------------------------------------------------------
C29_CallbackIffEnded ==
    [][\A w \in SeqWorkers :
          (pc[w] \in {"returned", "raised"} /\ pc'[w] = "responded")
             => Len(local'[w].tasks) =
                   Len(local[w].tasks)
                   + (IF pc[w] = "returned" /\ ~local[w].result.continueConversation
                      THEN 1 ELSE 0)]_vars

\* ------------------------------------------------------------------------
\* C30 - is_valid_bank_account(s) is true exactly when s is made of digits
\* only, is 9 to 18 characters long, holds two different digits and holds
\* neither 123456789 nor 987654321; every value extract_bank_accounts returns
\* is such a string (it holds no space and no hyphen any more).
\* ------------------------------------------------------------------------
C30_ValidAccount(s) ==
    /\ Len(s) \in 9..18
    /\ \A i \in 1..Len(s) : SubSeq(s, i, i) \in {"0", "1", "2", "3", "4", "5", "6", "7", "8", "9"}
    /\ \E i, j \in 1..Len(s) : SubSeq(s, i, i) # SubSeq(s, j, j)
    /\ \A i \in 1..(Len(s) - 8) : SubSeq(s, i, i + 8) \notin {"123456789", "987654321"}

C31_AcceptedAccounts ==
    \A w \in SeqWorkers :
        LET r == local[w].investigated
        IN  /\ (r.validated /\ r.text \in {"1234567890123456", "123456789012"})
                  => r.is_valid
            /\ (r.extracted_all
                   /\ r.text = "Your account 1234-5678-90123456 has been suspended")
                  => /\ r.extracted_data.bankAccounts = <<"1234567890123456">>
                     /\ \E i \in DOMAIN r.extracted_data.suspiciousKeywords :
                           r.extracted_data.suspiciousKeywords[i] = "suspended"

\* ------------------------------------------------------------------------
\* C32 - extract_keywords returns exactly the terms of SCAM_KEYWORDS that
\* occur in the text when letter case is ignored: a term is in the result if
\* and only if the text holds it in some letter case, and nothing else is in
\* the result.
\* ------------------------------------------------------------------------
C32_CaseInsensitiveKeywords ==
    \A w \in SeqWorkers :
        LET r == local[w].investigated
            reported == {r.keywords[i] : i \in DOMAIN r.keywords}
        IN  r.keyworded =>
               /\ reported \subseteq SCAM_KEYWORDS
               /\ \A term \in SCAM_KEYWORDS :
                     term \in reported
                        <=> \E i \in 1..Len(r.text) :
                               /\ i + Len(term) - 1 <= Len(r.text)
                               /\ lower(SubSeq(r.text, i, i + Len(term) - 1)) = lower(term)

\* ------------------------------------------------------------------------
\* C33 - every number extract_phone_numbers returns is 10 digits with a first
\* digit of 6 to 9, or "+91" followed by such 10 digits; a run of exactly 10
\* digits with a first digit of 6 to 9 that stands between non-word characters
\* is returned, bare or with the "+91" before it; a 9-digit run and a "+91"
\* number whose next digit is 1 are not returned; for "Call +919876543210 or
\* 8765432109, not 123456789" the result is ["+919876543210", "8765432109"].
\* ------------------------------------------------------------------------
C33_IsDigits(s) ==
    \A i \in 1..Len(s) :
        SubSeq(s, i, i) \in {"0", "1", "2", "3", "4", "5", "6", "7", "8", "9"}

C33_Mobile(s) ==
    Len(s) = 10 /\ C33_IsDigits(s) /\ SubSeq(s, 1, 1) \in {"6", "7", "8", "9"}

\* the 10-digit runs of the text that stand alone: no digit before, and the end
\* of the text, a space, a comma or a hyphen after
C33_Runs(text) ==
    { SubSeq(text, i, i + 9) : i \in
        { j \in 1..(Len(text) - 9) :
            /\ C33_Mobile(SubSeq(text, j, j + 9))
            /\ j = 1 \/ ~C33_IsDigits(SubSeq(text, j - 1, j - 1))
            /\ j + 9 = Len(text) \/ SubSeq(text, j + 10, j + 10) \in {" ", ",", "-"} } }

C34_FirstCycleContinues ==
    [][\A w \in SeqWorkers :
          LET h == Mine(w).conversation_history
              first == \/ Len(h) = 1
                       \/ Len(h) = 2 /\ h[2].sender = "honeypot-agent"
          IN  (max_conversation_turns > 2 /\ stale_conversation_threshold > 2)
                 => /\ (Leaves(w, "increment_turn_append") /\ h = << >>)
                          => pc'[w] # "raised"
                    /\ (Returns(w) /\ first)
                          => /\ local'[w].result.continueConversation
                             /\ sessions'[local[w].session_id].conversation_active]_vars

\* ------------------------------------------------------------------------
\* C35 - A call of process_message in which update_intelligence added
\* something returns continueConversation true unless the turn count has
\* reached max_conversation_turns or the types found have reached
\* min_intelligence_threshold (with more than one turn): it never ends by the
\* stale rule, whatever positive stale_conversation_threshold is.
\* ------------------------------------------------------------------------
C35_GrowthIsNotStale ==
    [][\A w \in SeqWorkers :
          LET session == Mine(w)
              before == session.turn_count - (IF local[w].agent_response = "" THEN 1 ELSE 2)
              found == investigate(message_text(local[w].message))
              grew == /\ session.last_intelligence_turn = before
                      /\ before = 0 => \E t \in DOMAIN found : found[t] # << >>
          IN  (/\ Returns(w) /\ grew
               /\ stale_conversation_threshold > 0
               /\ ~RuleMaxTurns(session) /\ ~RuleSufficientEvidence(session))
                 => local'[w].result.continueConversation]_vars

\* ------------------------------------------------------------------------
\* C36 - A session whose conversation_active is False is treated like any
\* other: a further call of process_message for it sets scam_detected to the
\* new verdict, merges what the message yields, counts its turns and appends
\* to the history, so turn_count can exceed max_conversation_turns.
\* ------------------------------------------------------------------------
C36_InactiveNotFrozen ==
    [][\A w \in SeqWorkers :
          LET id == local[w].session_id
              found == investigate(message_text(local[w].message))
          IN  (id \in DOMAIN sessions /\ ~sessions[id].conversation_active)
                 => /\ Leaves(w, "set_scam_detected")
                          => sessions'[id].scam_detected = local[w].is_scam
                    /\ Leaves(w, "update_intelligence")
                          => \A t \in IntelligenceTypes :
                                sessions'[id].intelligence[t] =
                                   sessions[id].intelligence[t]
                                      \cup {found[t][i] : i \in DOMAIN found[t]}
                    /\ (pc[w] \in {"increment_turn", "increment_turn_response"}
                           /\ pc'[w] # pc[w])
                          => sessions'[id].turn_count = sessions[id].turn_count + 1
                    /\ Leaves(w, "increment_turn_append")
                          => sessions'[id].conversation_history =
                                Append(sessions[id].conversation_history,
                                       local[w].message)]_vars

\* the session ended with the first call (an engaging one about the bank account,
\* which set scam_detected); two more calls were made for it: the turn count is
\* above max_conversation_turns, the keyword of the later message is stored and
\* scam_detected is False again
C36_Witness ==
    \E w \in SeqWorkers, id \in DOMAIN sessions :
        LET session == sessions[id]
            h == session.conversation_history
        IN  /\ pc[w] = "returned"
            /\ ~session.conversation_active
            /\ session.turn_count > max_conversation_turns
            /\ Len(h) = 6
            /\ h[1] = BankMessage /\ h[2].text = "is it urgent"
            /\ local[w].result.conversationTurn = 6
            /\ "investment" \in session.intelligence["suspiciousKeywords"]
            /\ ~session.scam_detected

C39_FlagIsLastVerdict ==
    [][\A w \in SeqWorkers :
          Returns(w)
             => /\ Mine(w).scam_detected = local[w].is_scam
                /\ sessions'[local[w].session_id].scam_detected = local[w].is_scam
                /\ local'[w].result.scamDetected = local[w].is_scam]_vars

\* the call before returned scamDetected true from a verdict with confidence 0.7
\* (so with the acknowledgement as its reply); this call got is_scam false and is
\* about to return with the flag false
C39_Witness ==
    \E w \in SeqWorkers :
        /\ pc[w] = "get_session_summary"
        /\ local[w].result.status = "success"
        /\ local[w].result.scamDetected
        /\ local[w].result.confidenceScore = 7
        /\ local[w].result.agentResponse = DefaultResponse
        /\ ~local[w].is_scam
        /\ ~Mine(w).scam_detected

\* ------------------------------------------------------------------------
\* Two sessions in one SessionManager: callers invoke the public methods for
\* either id in any order
\* ------------------------------------------------------------------------
\* each of the two sessions is given at most MaxTurnsEach turns
MaxTurnsEach == 2

NextTwo ==
    \/ \E id \in SessionIds \cup {"s3"}, now \in Timestamps : get_or_create_session(id, now)
    \/ \E id \in SessionIds \cup {"s3"} : update_intelligence(id, IntelA)
    \/ \E id \in SessionIds \cup {"s3"}, m \in StoreMessages :
          /\ Get(sessions, id).turn_count < MaxTurnsEach
          /\ increment_turn(id, m)
    \/ \E id \in SessionIds \cup {"s3"} : set_scam_detected(id, TRUE)
    \/ \E id \in SessionIds \cup {"s3"} : set_persona_used(id, "elderly")
    \/ \E id \in SessionIds \cup {"s3"} : should_end_conversation(id)
    \/ \E id \in SessionIds \cup {"s3"} : get_session_summary(id)
    \/ \E id \in SessionIds \cup {"s3"} : end_session(id)

SpecTwo == InitClient /\ [][NextTwo]_vars

\* ------------------------------------------------------------------------
\* C40 - Frame effects of the SessionManager methods.  A call for one
\* session id leaves every other session as it was.  In the session of the
\* call: turn_count and conversation_history change only in increment_turn;
\* update_intelligence, set_scam_detected, set_persona_used,
\* should_end_conversation and get_session_summary leave turn_count,
\* conversation_history and created_at unchanged; should_end_conversation
\* leaves every field but conversation_active unchanged.
\* ------------------------------------------------------------------------
C40_FrameEffects ==
    [][/\ DOMAIN sessions \subseteq DOMAIN sessions'
       /\ \A id \in DOMAIN sessions :
            LET before == sessions[id]
                after  == sessions'[id]
            IN  /\ id # last'.id => after = before
                /\ (after.turn_count # before.turn_count
                      \/ after.conversation_history # before.conversation_history)
                      => last'.op = "increment_turn" /\ last'.id = id
                /\ last'.op \in {"update_intelligence", "set_scam_detected", "set_persona_used",
                                 "should_end_conversation", "get_session_summary"}
                      => /\ after.turn_count = before.turn_count
                         /\ after.conversation_history = before.conversation_history
                         /\ after.created_at = before.created_at
                /\ last'.op = "should_end_conversation"
                      => after = [before EXCEPT
                                     !.conversation_active = after.conversation_active]]_vars

\* should_end_conversation has just ended the first session, which holds turns,
\* intelligence, a flag and a persona, next to a second session that has turns
\* and intelligence of its own and is still active
C40_Witness ==
    /\ last.op = "should_end_conversation"
    /\ last.id = "s1"
    /\ last.ret
    /\ last.pre.conversation_active
    /\ DOMAIN sessions = {"s1", "s3"}
    /\ ~sessions["s1"].conversation_active
    /\ sessions["s1"].turn_count = 2
    /\ sessions["s1"].scam_detected
    /\ sessions["s1"].persona_used = "elderly"
    /\ sessions["s1"].last_intelligence_turn = 1
    /\ sessions["s3"].conversation_active
    /\ sessions["s3"].turn_count = 1
    /\ sessions["s3"].last_intelligence_turn = 0
    /\ sessions["s3"].intelligence # sessions["s1"].intelligence
    /\ ~sessions["s3"].scam_detected
    /\ sessions["s3"].persona_used = None

====
